---- MODULE Spec2Model ----
(***************************************************************************)
(* EcoSynthesisAI (src/src/App.tsx): the resumable batch-extraction        *)
(* pipeline (handleProcessAll, handleManualFixSave, analyzeWithGemini) and *)
(* the taxonomy consolidation engine (handleConsolidateThemes,             *)
(* handleAcceptSuggestion, handleRejectSuggestion), as one state machine.  *)
(*                                                                         *)
(* React state (useState/useRef) is a variable per hook.  An async handler *)
(* is a small process: its local variables are variables of the model and  *)
(* every await is a point where other handlers may run.  A handler reads   *)
(* the state of the render it was created in; where a handler runs after   *)
(* an await on values captured before it, the captured values are kept in  *)
(* their own variables (cl...).                                            *)
(***************************************************************************)
EXTENDS Integers, Sequences, FiniteSets, TLC

(* ------------------------------ bounds -------------------------------- *)

\* Number of batches createBatches cuts the pasted text into.
NumBatches == 3

\* How many times the user presses Start/Continue Extraction.
MaxRuns == 2

\* How many times the user re-submits a text in the Data Repair window.
MaxFixes == 2

\* How many times the user presses the consolidation button.
MaxConsRuns == 2

\* How many times the user loads a saved state file.
MaxImports == 1

\* How many times the user clicks a lock icon.
MaxLockToggles == 1

\* Longest text given to the Segmenter, and greatest maximum chunk size.
MaxTextLen == 7

MaxChunk == 4

\* How many suggestions one answer of the consolidation service holds at most.
MaxReply == 2

\* Verify and reverse requests of one session.
MaxVerifies == 1

(* ------------------------- program constants -------------------------- *)

\* analyzeWithGemini: const maxRetries = 6
maxRetries == 6

\* maxRetries of auditTaxonomyWithGemini, consolidateThemesWithGemini and
\* optimizeStructureWithGemini (lines 595, 690, 765).
maxRetriesEnh == 3

(* ------------------------------ values -------------------------------- *)

\* Category and theme names the extraction service answers with.
PipeCats == {"A", "B"}

\* A theme name is the sequence of its characters (String.trim and
\* Array.sort work on them).
PipeThemes == {<<"t", "1">>}

\* The text of batch idx of the pasted input (textBatches[idx]).
TextOf(idx) == [kind |-> "orig", idx |-> idx]

\* The same batch after the user edited it in the Data Repair window.
EditedText(idx) == [kind |-> "edited", idx |-> idx]

\* What the service sent back when its answer could not be decoded.
ServiceOutput == [kind |-> "service", idx |-> 0]

NoText == [kind |-> "none", idx |-> 0]

\* manualFixState === null
NoFix == [isOpen |-> FALSE, text |-> NoText, batchIndex |-> 0]

\* createBatches(cleanRawText(rawText), 25000), for the pasted document.
textBatches(rawText) ==
    IF rawText = "" THEN << >> ELSE [k \in 1..NumBatches |-> TextOf(k - 1)]

\* An optional string of a service answer or of a record: << >> is
\* undefined (the field is missing), <<"">> the empty string.
Undefined == << >>

\* One entry of the service's "papers" array (lines 107-121): the fields the
\* taxonomy uses, and of the metadata one field that the merger copies
\* (title; authors, year, journal, abstract_summary, key_finding,
\* impact_keywords and short_citation are copied in the same way), one that
\* it defaults to "Unspecified" (driver_variable; response_variable,
\* study_location and study_species likewise) and effect_direction.  The
\* answers with category "A" are complete; those with category "B" come
\* without a title and an effect direction and with an empty driver.
ServiceEntry(cat, theme) ==
    [main_category |-> cat,
     sub_theme |-> theme,
     title |-> IF cat = "A" THEN <<"Title">> ELSE Undefined,
     driver_variable |-> IF cat = "A" THEN <<"Rain">> ELSE <<"">>,
     effect_direction |-> IF cat = "A" THEN <<"Positive">> ELSE Undefined]

ServiceEntries == {ServiceEntry(cat, theme) : cat \in PipeCats, theme \in PipeThemes}

\* a || b on optional strings: undefined and "" are falsy.
OrElse(a, b) == IF a = Undefined \/ a = <<"">> THEN b ELSE a

\* The "papers" array of one successful answer.
ServiceResults == {<<e>> : e \in ServiceEntries}

\* Failures of one fetchAI call, by the class of error it throws:
\* RetryableError (503, 429 without quota), QuotaExceededError (429 quota),
\* ApiKeyError (400, 403), a plain Error (other status, empty answer), and
\* the "malformed data" Error of safeJsonParse.
ErrorKinds == {"Retryable", "Quota", "ApiKey", "Other", "Parse"}

Range(s) == {s[k] : k \in 1..Len(s)}

Ids(ps) == {ps[k].id : k \in 1..Len(ps)}

IdSeq(ps) == [k \in 1..Len(ps) |-> ps[k].id]

IsPrefix(s, t) == Len(s) <= Len(t) /\ \A k \in 1..Len(s) : s[k] = t[k]

(* ---------------------- consolidation: values ------------------------- *)

\* Theme names of the imported corpus; T2pad is "t2 " as the service wrote it
\* (p.sub_theme is stored as received, line 1789).
T1 == <<"t", "1">>

T2pad == <<"t", "2", " ">>

\* UTF-16 code units of the characters in use (Array.prototype.sort order).
CharCode(c) ==
    CASE c = " " -> 32
      [] c = "1" -> 49
      [] c = "2" -> 50
      [] c = "t" -> 116

\* The white space among the characters in use.
WhiteSpace == {" ", "\n"}

\* String.prototype.trim
RECURSIVE trimStart(_)
trimStart(t) ==
    IF t # << >> /\ Head(t) \in WhiteSpace THEN trimStart(Tail(t)) ELSE t

RECURSIVE trimEnd(_)
trimEnd(t) ==
    IF t # << >> /\ t[Len(t)] \in WhiteSpace
    THEN trimEnd(SubSeq(t, 1, Len(t) - 1)) ELSE t

\* The texts given to the Segmenter: letters, blanks and newlines.
Alphabet == {"a", " ", "\n"}

Texts == UNION {[1..n -> Alphabet] : n \in 0..MaxTextLen}

trim(t) == trimEnd(trimStart(t))

\* a < b as JavaScript compares strings
RECURSIVE Before(_, _)
Before(a, b) ==
    IF a = << >> THEN b # << >>
    ELSE IF b = << >> THEN FALSE
    ELSE IF CharCode(Head(a)) # CharCode(Head(b))
         THEN CharCode(Head(a)) < CharCode(Head(b))
         ELSE Before(Tail(a), Tail(b))

RECURSIVE Insert(_, _)
Insert(x, s) ==
    IF s = << >> THEN <<x>>
    ELSE IF Before(x, Head(s)) THEN <<x>> \o s
    ELSE <<Head(s)>> \o Insert(x, Tail(s))

\* themes_to_combine.sort()
RECURSIVE sort(_)
sort(s) == IF s = << >> THEN << >> ELSE Insert(Head(s), sort(Tail(s)))

\* Lock keys: `cat:${name}` and `theme:${cat}|||${theme}` (toggleLock).
CatKey(name) == [type |-> "cat", cat |-> name, theme |-> << >>]

ThemeKey(cat, theme) == [type |-> "theme", cat |-> cat, theme |-> theme]

\* editingItem (line 1525): id is the key of the name being edited, which
\* holds originalName and parentCat; value is the text of the input field.
\* type is "" for null.
EditingItem(id, value) == [id |-> id, type |-> id.type, value |-> value]

NoEdit == [id |-> CatKey(""), type |-> "", value |-> << >>]

\* What the user types into the input field of a category and of a theme.
CategoryValues == {<<"B">>, <<"C", " ">>, <<" ">>}

ThemeValues == {<<"t", "2">>, <<" ">>}

\* A suggestion of the service.  Each of the four parts is null (<< >>) or
\* one object (a sequence of one record).
Suggestion(main, merge, rename, move, catMerge) ==
    [main_category |-> main,
     suggested_merge |-> merge,
     suggested_rename |-> rename,
     suggested_move |-> move,
     suggested_category_merge |-> catMerge]

Merge(themes, name) == <<[themes_to_combine |-> themes, new_theme_name |-> name]>>

Rename(current, new) == <<[current_name |-> current, new_name |-> new]>>

Move(theme, current, target) ==
    <<[theme |-> theme, current_category |-> current, target_category |-> target]>>

CategoryMerge(source, target) ==
    <<[source_category |-> source, target_category |-> target]>>

\* What the service may propose for the corpus below: a rename, moves out of
\* and into a category, category merges in both directions, a theme merge,
\* and a move that changes nothing.
ServiceSuggestions ==
    { Suggestion("A", << >>, Rename("A", "C"), << >>, << >>),
      Suggestion("A", << >>, << >>, Move(T1, "A", "B"), << >>),
      Suggestion("B", << >>, << >>, Move(T1, "B", "A"), << >>),
      Suggestion("A", << >>, << >>, << >>, CategoryMerge("A", "B")),
      Suggestion("B", << >>, << >>, << >>, CategoryMerge("B", "A")),
      Suggestion("A", Merge(<<T2pad, T1>>, T1), << >>, << >>, << >>),
      Suggestion("A", << >>, << >>, Move(T1, "A", "A"), << >>) }

\* consolidation.suggestions of one answer.  A failed call answers
\* { status: "no_changes", suggestions: [] } (lines 700-703).
ServiceReplies ==
    UNION {[1..n -> ServiceSuggestions] : n \in 0..MaxReply}

\* Every suggestion the interface of lines 136-161 admits over a few values
\* of each part: each part is absent or present, a theme merge may combine
\* one theme into itself (with or without padding), several themes or none,
\* a rename, a move and a category merge may lead to where they start.
AnySuggestions ==
    [main_category : {"A", "B"},
     suggested_merge : {<< >>, Merge(<<T1>>, T1), Merge(<<T2pad>>, trim(T2pad)),
                        Merge(<<T2pad, T1>>, T1), Merge(<< >>, T1)},
     suggested_rename : {<< >>, Rename("A", "C"), Rename("A", "A")},
     suggested_move : {<< >>, Move(T1, "A", "B"), Move(T1, "A", "A")},
     suggested_category_merge : {<< >>, CategoryMerge("A", "B"),
                                 CategoryMerge("B", "B")}]

\* Answers of one suggestion of any form, or of none.
AnyReplies == {<< >>} \cup {<<s>> : s \in AnySuggestions}

\* A pending proposal: a suggestion with the id given to it at line 2236.
WithId(s, id) ==
    [id |-> id,
     main_category |-> s.main_category,
     suggested_merge |-> s.suggested_merge,
     suggested_rename |-> s.suggested_rename,
     suggested_move |-> s.suggested_move,
     suggested_category_merge |-> s.suggested_category_merge,
     isVerified |-> FALSE]

\* The id 'ok' of the placeholder; Math.random ids are 1, 2, ...
OkId == 0

\* [{ id: 'ok', main_category: 'Success', suggested_merge: {
\*    themes_to_combine: [], new_theme_name: 'Structure is Optimal' } }]
Placeholder ==
    <<WithId(Suggestion("Success", Merge(<< >>, <<"o", "k">>), << >>, << >>, << >>),
             OkId)>>

NoSuggestion == WithId(Suggestion("", << >>, << >>, << >>, << >>), OkId)

\* getSuggestionSignature (lines 222-236): the first part that is present.
getSuggestionSignature(s) ==
    IF s.suggested_merge # << >>
    THEN [kind |-> "MERGE", a |-> s.main_category, b |-> "",
          themes |-> sort(s.suggested_merge[1].themes_to_combine),
          theme |-> s.suggested_merge[1].new_theme_name]
    ELSE IF s.suggested_rename # << >>
    THEN [kind |-> "RENAME", a |-> s.suggested_rename[1].current_name,
          b |-> s.suggested_rename[1].new_name, themes |-> << >>, theme |-> << >>]
    ELSE IF s.suggested_move # << >>
    THEN [kind |-> "MOVE", a |-> s.suggested_move[1].current_category,
          b |-> s.suggested_move[1].target_category, themes |-> << >>,
          theme |-> s.suggested_move[1].theme]
    ELSE IF s.suggested_category_merge # << >>
    THEN [kind |-> "CAT_MERGE", a |-> s.suggested_category_merge[1].source_category,
          b |-> s.suggested_category_merge[1].target_category,
          themes |-> << >>, theme |-> << >>]
    ELSE [kind |-> "", a |-> "", b |-> "", themes |-> << >>, theme |-> << >>]

\* A record of a saved state file: the first of a file has a title, the
\* second an empty one, the third none.
ImportedPaper(k, cat, theme) ==
    [id |-> [b |-> 1, fixed |-> FALSE, idx |-> k],
     title |-> IF k = 0 THEN <<"Title">> ELSE IF k = 1 THEN <<"">> ELSE Undefined,
     category |-> cat, theme |-> theme,
     driver |-> <<"Rain">>, driverGroup |-> <<"Rain">>,
     effectDirection |-> <<"Positive">>, batchId |-> 1, src |-> 0]

\* The keys of a record (lines 67-90).
PaperKeys == {"id", "title", "category", "theme", "driver", "driverGroup",
              "effectDirection", "batchId", "src"}

\* The keys whose value may be undefined.
OptionalKeys == {"title", "driver", "driverGroup", "effectDirection"}

\* Mutant: the object is written without its id.
stringifyPaperNoId(p) ==
    [f \in {g \in PaperKeys \ {"id"} : g \notin OptionalKeys \/ p[g] # Undefined} |-> p[f]]

\* JSON.stringify of one record (line 2369): a key whose value is undefined
\* is left out, every other key is written with its value.
stringifyPaper(p) ==
    [f \in {g \in PaperKeys : g \notin OptionalKeys \/ p[g] # Undefined} |-> p[f]]

\* What the program reads of an object that JSON.parse made (line 2384):
\* a key that is not there reads as undefined.
parsePaper(o) ==
    [f \in PaperKeys |-> IF f \in DOMAIN o THEN o[f] ELSE Undefined]

\* The document of a state file: JSON.stringify({ papers, reviewTopic,
\* isTermsNormalized }) (lines 2364-2369).  topic and flag are << >> in a
\* file that does not have them.
StateDocument(ps, topic, flag) ==
    [papers |-> [k \in 1..Len(ps) |-> stringifyPaper(ps[k])],
     reviewTopic |-> topic,
     isTermsNormalized |-> flag]

\* Topics the user types into the Topic field (line 2678).
Topics == {"", "eco"}

\* json.papers of the state files the user can load.
ImportFiles ==
    { <<ImportedPaper(0, "A", T1), ImportedPaper(1, "A", T2pad),
        ImportedPaper(2, "B", T1)>>,
      <<ImportedPaper(0, "A", T1), ImportedPaper(1, "B", T1)>> }

VARIABLES
    \* ---- React state of App
    apiKey,                 \* a credential is configured
    inputText,              \* "" or the pasted document
    papers,                 \* the corpus
    batchCount,
    isProcessing,
    stopSignal,             \* stopSignal.current
    manualFixState,
    quotaErrorOpen,
    error,                  \* the kind of message shown, "" for null
    \* ---- locals of the running handleProcessAll / handleManualFixSave
    pc,                     \* "idle", or the await the handler is suspended at
    caller,                 \* who awaits analyzeWithGemini: "loop" or "fix"
    rawText,
    i,
    accumulatedPapers,
    localBatchCounter,
    retries,
    newText,                \* handleManualFixSave's argument
    resumeIndex,
    clPapers,               \* papers, batchCount and inputText of the render
    clBatchCount,           \* handleManualFixSave was created in
    clInputText,
    \* ---- history, for the properties
    runs,
    fixes,
    everMerged,             \* identifiers of all records ever merged
    mergedOfInput,          \* per batch index: merges since the text was pasted
    merges,                 \* per batch index: merges since Start
    submits,                \* per batch index: analyzeWithGemini calls since Start
    fixAt,                  \* batch index of the first pause of this run, or -1
    idsAtPause,             \* identifiers in the corpus at that pause
    submitsAtPause,
    stopReq,                \* Stop was pressed during the present call
    submittedAfterStop,
    failed,                 \* failed attempts of the call in flight
    delays,                 \* backoff delays taken by the call in flight
    lastStep,               \* what the last step did
    lastError,              \* the error of the call that failed in the last step
    \* ---- React state of the consolidation engine
    consolidationSuggestions,   \* the pending proposals; << >> for null and []
    rejectedSuggestions,        \* the Rejection Log: signatures
    lockedItems,                \* lock keys
    isConsolidating,            \* handleConsolidateThemes awaits the service
    clLockedItems,              \* lockedItems of the render it was called in
                                \* last: the locks the pending list was
                                \* filtered with
    \* ---- history of the consolidation engine
    consRuns,
    lockToggles,
    imports,
    lastSuggestion,             \* the proposal accepted or rejected last
    \* ---- createBatches: arguments, locals, position
    segText,
    maxChunkSize,
    remaining,
    batches,
    segPc,                      \* "idle", "loop" or "done"
    \* ---- more React state of App
    reviewTopic,                \* the topic of the review, "" at first
    isTermsNormalized,          \* the terms were normalized
    verifyingSuggestionId,      \* id of the proposal being verified or
                                \* reversed, 0 for null
    \* ---- the enhancement request in flight
    enhPc,                      \* "none", "consolidate" or "optimize"
    enhRetries,                 \* retries of the wrapper in flight
    verifyPc,                   \* "none", "verify" or "reverse"
    clSuggestion,               \* suggestion found by the handler in flight
    clConsRuns,                 \* the list the suggestion was found in
    verifies,                   \* verify and reverse requests so far
    lastReply,                  \* the last answer of an enhancement
                                \* request that was kept
    exportedState,              \* << >> or the corpus, topic and flag that
                                \* the last download was made of
    \* ---- the file system of the user
    savedFile,                  \* << >> or <<state.json>>, the last download
    \* ---- more React state of App
    editingItem                 \* the name being edited in the tree

stateVars == <<apiKey, inputText, papers, batchCount, isProcessing, stopSignal,
               manualFixState, quotaErrorOpen, error>>

runVars == <<pc, caller, rawText, i, accumulatedPapers, localBatchCounter, retries>>

fixVars == <<newText, resumeIndex, clPapers, clBatchCount, clInputText>>

histVars == <<runs, fixes, everMerged, mergedOfInput, merges, submits, fixAt, idsAtPause,
              submitsAtPause, stopReq, submittedAfterStop, lastStep,
              lastError>>

consRest == <<rejectedSuggestions, lockedItems, isConsolidating, clLockedItems,
              consRuns, lockToggles, imports, lastSuggestion>>

consVars == <<consolidationSuggestions, consRest>>

callHist == <<failed, delays>>

segVars == <<segText, maxChunkSize, remaining, batches, segPc>>

verifyVars == <<verifyingSuggestionId, verifyPc, clSuggestion, clConsRuns, verifies>>

enhVars == <<reviewTopic, isTermsNormalized, enhPc, enhRetries, verifyVars, editingItem, savedFile,
             lastReply, exportedState>>

vars == <<stateVars, runVars, fixVars, histVars, callHist, consVars, segVars,
          enhVars>>

ZeroCounts == [k \in 0..(NumBatches - 1) |-> 0]

AppInit ==
    /\ apiKey = FALSE
    /\ inputText = ""
    /\ papers = << >>
    /\ batchCount = 0
    /\ isProcessing = FALSE
    /\ stopSignal = FALSE
    /\ manualFixState = NoFix
    /\ quotaErrorOpen = FALSE
    /\ error = ""
    /\ pc = "idle"
    /\ caller = "loop"
    /\ rawText = ""
    /\ i = 0
    /\ accumulatedPapers = << >>
    /\ localBatchCounter = 0
    /\ retries = 0
    /\ failed = 0
    /\ delays = 0
    /\ newText = NoText
    /\ resumeIndex = 0
    /\ clPapers = << >>
    /\ clBatchCount = 0
    /\ clInputText = ""
    /\ runs = 0
    /\ fixes = 0
    /\ everMerged = {}
    /\ mergedOfInput = ZeroCounts
    /\ merges = ZeroCounts
    /\ submits = ZeroCounts
    /\ fixAt = -1
    /\ idsAtPause = << >>
    /\ submitsAtPause = ZeroCounts
    /\ stopReq = FALSE
    /\ submittedAfterStop = FALSE
    /\ lastStep = "init"
    /\ lastError = ""
    /\ consolidationSuggestions = << >>
    /\ rejectedSuggestions = << >>
    /\ lockedItems = {}
    /\ isConsolidating = FALSE
    /\ clLockedItems = {}
    /\ consRuns = 0
    /\ lockToggles = 0
    /\ imports = 0
    /\ lastSuggestion = NoSuggestion
    /\ reviewTopic = ""
    /\ isTermsNormalized = FALSE
    /\ verifyingSuggestionId = 0
    /\ enhPc = "none"
    /\ enhRetries = 0
    /\ verifyPc = "none"
    /\ clSuggestion = NoSuggestion
    /\ clConsRuns = 0
    /\ verifies = 0
    /\ savedFile = << >>
    /\ editingItem = NoEdit
    /\ lastReply = << >>
    /\ exportedState = << >>

\* The state after construction; createBatches has not been called.
Init ==
    /\ AppInit
    /\ segText = << >>
    /\ maxChunkSize = 1
    /\ remaining = << >>
    /\ batches = << >>
    /\ segPc = "idle"

\* A modal window (fixed inset-0, z-60) covers the page: nothing under it
\* can be clicked.
ModalOpen == manualFixState.isOpen \/ quotaErrorOpen

(* --------------------------- configuration ---------------------------- *)

\* The user types a key into the settings panel.
SetApiKey ==
    /\ ~ModalOpen
    /\ ~apiKey
    /\ apiKey' = TRUE
    /\ lastStep' = "key"
    /\ lastError' = ""
    /\ UNCHANGED <<inputText, papers, batchCount, isProcessing, stopSignal,
                   manualFixState, quotaErrorOpen, error>>
    /\ UNCHANGED <<runVars, fixVars, callHist>>
    /\ UNCHANGED <<runs, fixes, everMerged, mergedOfInput, merges, submits, fixAt, idsAtPause,
                   submitsAtPause, stopReq, submittedAfterStop>>
    /\ UNCHANGED consVars
    /\ UNCHANGED segVars
    /\ UNCHANGED enhVars

\* The user pastes the document; the textarea is disabled while processing.
PasteInput ==
    /\ ~ModalOpen
    /\ ~isProcessing
    /\ inputText = ""
    /\ inputText' = "doc"
    /\ mergedOfInput' = ZeroCounts
    /\ lastStep' = "paste"
    /\ lastError' = ""
    /\ UNCHANGED <<apiKey, papers, batchCount, isProcessing, stopSignal,
                   manualFixState, quotaErrorOpen, error>>
    /\ UNCHANGED <<runVars, fixVars, callHist>>
    /\ UNCHANGED <<runs, fixes, everMerged, merges, submits, fixAt, idsAtPause,
                   submitsAtPause, stopReq, submittedAfterStop>>
    /\ UNCHANGED consVars
    /\ UNCHANGED segVars
    /\ UNCHANGED enhVars

(* ------------------------- analyzeWithGemini -------------------------- *)

\* Mutant: only RetryableError is tried again; every other error is thrown.
ShouldRetryOnlyRetryable(kind, r) ==
    LET isRetryable == kind = "Retryable"
    IN  /\ kind # "Parse"
        /\ isRetryable
        /\ r < maxRetries

\* Mutant: a parse failure is treated like any other error and tried again.
ShouldRetryParseToo(kind, r) ==
    LET isRetryable == kind = "Retryable"
        isFatal == kind \in {"Quota", "ApiKey"}
    IN  /\ isRetryable \/ (~isFatal /\ r < maxRetries)
        /\ r < maxRetries

\* Mutant: the inner test of the ceiling is missing for retryable errors.
ShouldRetryNoCeiling(kind, r) ==
    LET isRetryable == kind = "Retryable"
        isFatal == kind \in {"Quota", "ApiKey"}
    IN  /\ kind # "Parse"
        /\ isRetryable \/ (~isFatal /\ r < maxRetries)

\* The catch block of analyzeWithGemini (lines 525-543): whether a call that
\* failed with an error of this kind, after r retries, is tried again.
ShouldRetry(kind, r) ==
    LET isRetryable == kind = "Retryable"
        isFatal == kind \in {"Quota", "ApiKey"}
    IN  /\ kind # "Parse"
        /\ isRetryable \/ (~isFatal /\ r < maxRetries)
        /\ r < maxRetries

(* --------------------------- Result Merger ---------------------------- *)

\* Mutant: the answer is appended twice.
NewPapersTwice(result, counter, idx) ==
    [k \in 1..(2 * Len(result)) |->
        [id |-> [b |-> counter, fixed |-> FALSE, idx |-> (k - 1) % Len(result)],
         title |-> result[((k - 1) % Len(result)) + 1].title,
         category |-> result[((k - 1) % Len(result)) + 1].main_category,
         theme |-> result[((k - 1) % Len(result)) + 1].sub_theme,
         driver |-> OrElse(result[((k - 1) % Len(result)) + 1].driver_variable, <<"Unspecified">>),
         driverGroup |-> OrElse(result[((k - 1) % Len(result)) + 1].driver_variable, <<"Unspecified">>),
         effectDirection |-> OrElse(result[((k - 1) % Len(result)) + 1].effect_direction, <<"Unclear">>),
         batchId |-> counter,
         src |-> idx]]

\* The records handleProcessAll makes of one answer (lines 1783-1804).
NewPapers(result, counter, idx) ==
    [k \in 1..Len(result) |->
        [id |-> [b |-> counter, fixed |-> FALSE, idx |-> k - 1],
         title |-> result[k].title,
         category |-> result[k].main_category,
         theme |-> result[k].sub_theme,
         driver |-> OrElse(result[k].driver_variable, <<"Unspecified">>),
         driverGroup |-> OrElse(result[k].driver_variable, <<"Unspecified">>),
         effectDirection |-> OrElse(result[k].effect_direction, <<"Unclear">>),
         batchId |-> counter,
         src |-> idx]]

\* Mutant: the records of a manual fix are named like those of the loop.
FixedPapersLikeLoop(result, count, idx) ==
    [k \in 1..Len(result) |->
        [id |-> [b |-> count, fixed |-> FALSE, idx |-> k - 1],
         title |-> result[k].title,
         category |-> result[k].main_category,
         theme |-> result[k].sub_theme,
         driver |-> OrElse(result[k].driver_variable, <<"Unspecified">>),
         driverGroup |-> OrElse(result[k].driver_variable, <<"Unspecified">>),
         effectDirection |-> OrElse(result[k].effect_direction, <<"Unclear">>),
         batchId |-> count + 1,
         src |-> idx]]

\* The records handleManualFixSave makes of one answer (lines 1887-1908).
FixedPapers(result, count, idx) ==
    [k \in 1..Len(result) |->
        [id |-> [b |-> count, fixed |-> TRUE, idx |-> k - 1],
         title |-> result[k].title,
         category |-> result[k].main_category,
         theme |-> result[k].sub_theme,
         driver |-> OrElse(result[k].driver_variable, <<"Unspecified">>),
         driverGroup |-> OrElse(result[k].driver_variable, <<"Unspecified">>),
         effectDirection |-> OrElse(result[k].effect_direction, <<"Unclear">>),
         batchId |-> count + 1,
         src |-> idx]]

\* Answers of the audit service: no fix, or one fix.
AuditFixes ==
    [original_category : PipeCats, original_theme : PipeThemes,
     new_category : PipeCats, new_theme : PipeThemes]

AuditResults == {<< >>} \cup {<<f>> : f \in AuditFixes}

\* audit.fixes.find(f => ...) on one record (lines 1835-1842).
ApplyFixes(fixList, p) ==
    LET hits == {k \in 1..Len(fixList) :
                    /\ fixList[k].original_category = p.category
                    /\ fixList[k].original_theme = p.theme}
    IN  IF hits = {} THEN p
        ELSE LET f == fixList[CHOOSE k \in hits : \A m \in hits : k <= m]
             IN  [p EXCEPT !.category = f.new_category, !.theme = f.new_theme]

\* The taxonomy built of a list of records (lines 1750-1754, 1877-1881):
\* the themes seen under each category, here as (category, theme) pairs.
taxonomy(ps) == {<<ps[k].category, ps[k].theme>> : k \in 1..Len(ps)}

(* -------------------------- handleProcessAll -------------------------- *)

\* The end of handleProcessAll without an audit: setInputText('') and the
\* finally block (lines 1851, 1861-1869).
RunEnds ==
    /\ inputText' = ""
    /\ isProcessing' = FALSE
    /\ stopSignal' = FALSE
    /\ pc' = "idle"
    /\ caller' = "loop"
    /\ rawText' = ""
    /\ i' = 0
    /\ accumulatedPapers' = << >>
    /\ localBatchCounter' = 0
    /\ retries' = 0
    /\ failed' = 0
    /\ delays' = 0
    /\ stopReq' = FALSE

\* The head of the for loop at index idx (lines 1746-1758) and, when the
\* loop is left, what follows it up to the next await (lines 1820-1830).
\* stop is stopSignal.current, err the message shown unless the loop sets one,
\* subs the calls counted so far.
LoopTop(idx, text, acc, counter, stop, err, subs) ==
    IF idx < Len(textBatches(text)) /\ ~stop
    THEN \* analyzeWithGemini(textBatches[i], taxonomy, ...) is awaited
         /\ pc' = "analyze"
         /\ caller' = "loop"
         /\ rawText' = text
         /\ i' = idx
         /\ accumulatedPapers' = acc
         /\ localBatchCounter' = counter
         /\ retries' = 0
         /\ failed' = 0
         /\ delays' = 0
         /\ isProcessing' = TRUE
         /\ stopSignal' = stop
         /\ error' = err
         /\ submits' = [subs EXCEPT ![idx] = @ + 1]
         /\ submittedAfterStop' = (submittedAfterStop \/ stopReq)
         /\ UNCHANGED <<inputText, stopReq>>
    ELSE IF idx < Len(textBatches(text))
    THEN \* if (stopSignal.current) { setError("Stopped."); break; }
         /\ error' = "Stopped"
         /\ submits' = subs
         /\ RunEnds
         /\ UNCHANGED submittedAfterStop
    ELSE IF ~stop /\ Len(acc) > 0
    THEN \* auditTaxonomyWithGemini(...) is awaited
         /\ pc' = "audit"
         /\ caller' = "loop"
         /\ rawText' = text
         /\ i' = idx
         /\ accumulatedPapers' = acc
         /\ localBatchCounter' = counter
         /\ retries' = 0
         /\ failed' = 0
         /\ delays' = 0
         /\ isProcessing' = TRUE
         /\ stopSignal' = stop
         /\ error' = err
         /\ submits' = subs
         /\ UNCHANGED <<inputText, stopReq, submittedAfterStop>>
    ELSE /\ error' = err
         /\ submits' = subs
         /\ RunEnds
         /\ UNCHANGED submittedAfterStop

\* Mutant: the handler without its guard.
handleProcessAllNoGuard(resumeFromIndex, text, ps, count, subs) ==
    /\ consolidationSuggestions' = << >>
    /\ LoopTop(resumeFromIndex, text, ps, count, FALSE, "", subs)

\* handleProcessAll(resumeFromIndex) up to its first await (lines 1721-1758),
\* called in a render whose inputText, papers and batchCount are text, ps and
\* count.  The two guards at its head return with a message.
handleProcessAll(resumeFromIndex, text, ps, count, subs) ==
    IF text = "" \/ ~apiKey
    THEN /\ error' = (IF text = "" THEN "NoInput" ELSE "NoKey")
         /\ submits' = subs
         /\ pc' = "idle"
         /\ caller' = "loop"
         /\ rawText' = ""
         /\ i' = 0
         /\ accumulatedPapers' = << >>
         /\ localBatchCounter' = 0
         /\ retries' = 0
         /\ failed' = 0
         /\ delays' = 0
         /\ UNCHANGED <<inputText, isProcessing, stopSignal, stopReq,
                        submittedAfterStop, consolidationSuggestions>>
    ELSE \* setConsolidationSuggestions(null), line 1726
         /\ consolidationSuggestions' = << >>
         /\ LoopTop(resumeFromIndex, text, ps, count, FALSE, "", subs)

\* The Start / Continue Extraction button (line 2716), enabled with a text and
\* a key and shown while nothing is processing.
Start ==
    /\ ~ModalOpen
    /\ ~isProcessing
    /\ inputText # ""
    /\ apiKey
    /\ runs < MaxRuns
    /\ runs' = runs + 1
    /\ handleProcessAll(0, inputText, papers, batchCount, ZeroCounts)
    /\ merges' = ZeroCounts
    /\ fixAt' = -1
    /\ idsAtPause' = << >>
    /\ submitsAtPause' = ZeroCounts
    /\ lastStep' = "start"
    /\ lastError' = ""
    /\ UNCHANGED <<apiKey, papers, batchCount, manualFixState, quotaErrorOpen>>
    /\ UNCHANGED <<fixVars, fixes, everMerged, mergedOfInput>>
    /\ UNCHANGED consRest
    /\ UNCHANGED segVars
    /\ UNCHANGED enhVars

\* handleProcessAll() is called with no text or with no key: the operation
\* "start/continue extraction" where its guard (lines 1722-1723) holds.  The
\* button of line 2716 is disabled in these states, the guard is what the
\* handler itself does there.
StartRefused ==
    /\ ~ModalOpen
    /\ ~isProcessing
    /\ inputText = "" \/ ~apiKey
    /\ handleProcessAll(0, inputText, papers, batchCount, submits)
    /\ lastStep' = "refused"
    /\ lastError' = ""
    /\ UNCHANGED <<apiKey, papers, batchCount, manualFixState, quotaErrorOpen>>
    /\ UNCHANGED <<fixVars, runs, fixes, everMerged, mergedOfInput, merges, fixAt, idsAtPause,
                   submitsAtPause>>
    /\ UNCHANGED consRest
    /\ UNCHANGED segVars
    /\ UNCHANGED enhVars

\* analyzeWithGemini answers the loop with a decoded result: the records are
\* merged (lines 1781-1816) and the courtesy delay is awaited (line 1817).
BatchSucceeds ==
    /\ pc = "analyze"
    /\ caller = "loop"
    /\ \E result \in ServiceResults :
         LET counter == localBatchCounter + 1
             newPapers == NewPapers(result, counter, i)
         IN  /\ localBatchCounter' = counter
             /\ accumulatedPapers' = accumulatedPapers \o newPapers
             /\ papers' = accumulatedPapers \o newPapers
             /\ batchCount' = counter
             /\ everMerged' = everMerged \cup Ids(newPapers)
    /\ merges' = [merges EXCEPT ![i] = @ + 1]
    /\ mergedOfInput' = [mergedOfInput EXCEPT ![i] = @ + 1]
    /\ pc' = "wait"
    /\ retries' = 0
    /\ UNCHANGED callHist
    /\ lastStep' = "merge"
    /\ lastError' = ""
    /\ UNCHANGED <<apiKey, inputText, isProcessing, stopSignal, manualFixState,
                   quotaErrorOpen, error>>
    /\ UNCHANGED <<caller, rawText, i>>
    /\ UNCHANGED <<fixVars, runs, fixes, submits, fixAt, idsAtPause,
                   submitsAtPause, stopReq, submittedAfterStop>>
    /\ UNCHANGED consVars
    /\ UNCHANGED segVars
    /\ UNCHANGED enhVars

\* The courtesy delay is over: i++ and the next iteration (line 1746).
WaitElapsed ==
    /\ pc = "wait"
    /\ LoopTop(i + 1, rawText, accumulatedPapers, localBatchCounter,
               stopSignal, error, submits)
    /\ lastStep' = "next"
    /\ lastError' = ""
    /\ UNCHANGED <<apiKey, papers, batchCount, manualFixState, quotaErrorOpen>>
    /\ UNCHANGED <<fixVars, runs, fixes, everMerged, mergedOfInput, merges, fixAt, idsAtPause,
                   submitsAtPause>>
    /\ UNCHANGED consVars
    /\ UNCHANGED segVars
    /\ UNCHANGED enhVars

\* A call of analyzeWithGemini fails and is tried again: retries++ and the
\* backoff delay is awaited (lines 534-541).
CallRetried ==
    /\ pc = "analyze"
    /\ \E kind \in ErrorKinds :
         /\ ShouldRetry(kind, retries)
         /\ lastError' = kind
    /\ retries' = retries + 1
    /\ failed' = failed + 1
    /\ UNCHANGED delays
    /\ pc' = "backoff"
    /\ lastStep' = "retry"
    /\ UNCHANGED <<stateVars, fixVars>>
    /\ UNCHANGED <<caller, rawText, i, accumulatedPapers, localBatchCounter>>
    /\ UNCHANGED <<runs, fixes, everMerged, mergedOfInput, merges, submits, fixAt, idsAtPause,
                   submitsAtPause, stopReq, submittedAfterStop>>
    /\ UNCHANGED consVars
    /\ UNCHANGED segVars
    /\ UNCHANGED enhVars

\* The backoff delay is over: the same batch is fetched again (line 518).
BackoffElapsed ==
    /\ pc = "backoff"
    /\ pc' = "analyze"
    /\ lastStep' = "refetch"
    /\ lastError' = ""
    /\ UNCHANGED <<stateVars, fixVars>>
    /\ UNCHANGED <<caller, rawText, i, accumulatedPapers, localBatchCounter,
                   retries>>
    /\ delays' = delays + 1
    /\ UNCHANGED failed
    /\ UNCHANGED <<runs, fixes, everMerged, mergedOfInput, merges, submits, fixAt, idsAtPause,
                   submitsAtPause, stopReq, submittedAfterStop>>
    /\ UNCHANGED consVars
    /\ UNCHANGED segVars
    /\ UNCHANGED enhVars

\* safeJsonParse could not decode the answer of a batch of the loop: the
\* Data Repair window opens on the batch's text (lines 1761-1771) and the
\* finally block leaves the progress display alone (line 1862).
BatchParseFailure ==
    /\ pc = "analyze"
    /\ caller = "loop"
    /\ manualFixState' =
          [isOpen |-> TRUE, text |-> textBatches(rawText)[i + 1], batchIndex |-> i]
    /\ lastError' = "Parse"
    /\ isProcessing' = FALSE
    /\ stopSignal' = FALSE
    /\ pc' = "idle"
    /\ rawText' = ""
    /\ i' = 0
    /\ accumulatedPapers' = << >>
    /\ localBatchCounter' = 0
    /\ retries' = 0
    /\ failed' = 0
    /\ delays' = 0
    /\ stopReq' = FALSE
    /\ IF fixAt = -1
       THEN /\ fixAt' = i
            /\ idsAtPause' = IdSeq(papers)
            /\ submitsAtPause' = submits
       ELSE UNCHANGED <<fixAt, idsAtPause, submitsAtPause>>
    /\ lastStep' = "pause"
    /\ UNCHANGED <<apiKey, inputText, papers, batchCount, quotaErrorOpen, error>>
    /\ UNCHANGED <<caller, fixVars, runs, fixes, everMerged, mergedOfInput, merges, submits,
                   submittedAfterStop>>
    /\ UNCHANGED consVars
    /\ UNCHANGED segVars
    /\ UNCHANGED enhVars

\* analyzeWithGemini throws another error to the loop: the catch and finally
\* blocks of handleProcessAll (lines 1854-1869).
BatchFails ==
    /\ pc = "analyze"
    /\ caller = "loop"
    /\ \E kind \in ErrorKinds \ {"Parse"} :
         /\ ~ShouldRetry(kind, retries)
         /\ lastError' = kind
         /\ IF kind = "Quota"
            THEN quotaErrorOpen' = TRUE /\ error' = "QuotaStop"
            ELSE quotaErrorOpen' = quotaErrorOpen /\ error' = "StoppedError"
    /\ isProcessing' = FALSE
    /\ stopSignal' = FALSE
    /\ pc' = "idle"
    /\ rawText' = ""
    /\ i' = 0
    /\ accumulatedPapers' = << >>
    /\ localBatchCounter' = 0
    /\ retries' = 0
    /\ failed' = 0
    /\ delays' = 0
    /\ stopReq' = FALSE
    /\ lastStep' = "fatal"
    /\ UNCHANGED <<apiKey, inputText, papers, batchCount, manualFixState>>
    /\ UNCHANGED <<caller, fixVars, runs, fixes, everMerged, mergedOfInput, merges, submits,
                   fixAt, idsAtPause, submitsAtPause, submittedAfterStop>>
    /\ UNCHANGED consVars
    /\ UNCHANGED segVars
    /\ UNCHANGED enhVars

\* The audit answers (a failed audit answers with no fixes): the fixes are
\* applied to the run's records and the run ends (lines 1832-1852, 1861-1869).
AuditReturns ==
    /\ pc = "audit"
    /\ \E fixList \in AuditResults :
         IF Len(fixList) > 0
         THEN papers' = [k \in 1..Len(accumulatedPapers) |->
                            ApplyFixes(fixList, accumulatedPapers[k])]
         ELSE papers' = papers
    /\ error' = "Done"
    /\ RunEnds
    /\ lastStep' = "done"
    /\ lastError' = ""
    /\ UNCHANGED <<apiKey, batchCount, manualFixState, quotaErrorOpen>>
    /\ UNCHANGED <<fixVars, runs, fixes, everMerged, mergedOfInput, merges, submits, fixAt,
                   idsAtPause, submitsAtPause, submittedAfterStop>>
    /\ UNCHANGED consVars
    /\ UNCHANGED segVars
    /\ UNCHANGED enhVars

\* handleStopProcessing: the same button while processing (lines 1541, 2716).
Stop ==
    /\ ~ModalOpen
    /\ isProcessing
    /\ inputText # ""
    /\ apiKey
    /\ ~stopSignal
    /\ stopSignal' = TRUE
    /\ stopReq' = TRUE
    /\ lastStep' = "stop"
    /\ lastError' = ""
    /\ UNCHANGED <<apiKey, inputText, papers, batchCount, isProcessing,
                   manualFixState, quotaErrorOpen, error>>
    /\ UNCHANGED <<runVars, fixVars, callHist>>
    /\ UNCHANGED <<runs, fixes, everMerged, mergedOfInput, merges, submits, fixAt, idsAtPause,
                   submitsAtPause, submittedAfterStop>>
    /\ UNCHANGED consVars
    /\ UNCHANGED segVars
    /\ UNCHANGED enhVars

\* The quota window is closed (line 2660).
CloseQuotaModal ==
    /\ quotaErrorOpen
    /\ quotaErrorOpen' = FALSE
    /\ lastStep' = "closeQuota"
    /\ lastError' = ""
    /\ UNCHANGED <<apiKey, inputText, papers, batchCount, isProcessing,
                   stopSignal, manualFixState, error>>
    /\ UNCHANGED <<runVars, fixVars, callHist>>
    /\ UNCHANGED <<runs, fixes, everMerged, mergedOfInput, merges, submits, fixAt, idsAtPause,
                   submitsAtPause, stopReq, submittedAfterStop>>
    /\ UNCHANGED consVars
    /\ UNCHANGED segVars
    /\ UNCHANGED enhVars

(* ------------------------- handleManualFixSave ------------------------ *)

\* "Retry Batch" in the Data Repair window (lines 1872-1883): the window
\* closes and analyzeWithGemini(newText, ...) is awaited.  The text is the one
\* shown or the user's correction of it.
ManualFixSave ==
    /\ manualFixState.isOpen
    /\ fixes < MaxFixes
    /\ fixes' = fixes + 1
    /\ \E text \in {manualFixState.text, EditedText(manualFixState.batchIndex)} :
         newText' = text
    /\ resumeIndex' = manualFixState.batchIndex
    /\ manualFixState' = NoFix
    /\ isProcessing' = TRUE
    /\ clPapers' = papers
    /\ clBatchCount' = batchCount
    /\ clInputText' = inputText
    /\ pc' = "analyze"
    /\ caller' = "fix"
    /\ retries' = 0
    /\ failed' = 0
    /\ delays' = 0
    /\ submits' = [submits EXCEPT ![manualFixState.batchIndex] = @ + 1]
    /\ stopReq' = FALSE
    /\ lastStep' = "fixSubmit"
    /\ lastError' = ""
    /\ UNCHANGED <<apiKey, inputText, papers, batchCount, stopSignal,
                   quotaErrorOpen, error>>
    /\ UNCHANGED <<rawText, i, accumulatedPapers, localBatchCounter>>
    /\ UNCHANGED <<runs, everMerged, mergedOfInput, merges, fixAt, idsAtPause, submitsAtPause,
                   submittedAfterStop>>
    /\ UNCHANGED consVars
    /\ UNCHANGED segVars
    /\ UNCHANGED enhVars

\* Mutant: the loop is resumed one batch too far.
ResumeSkipsOne(idx) == idx + 2

\* Mutant: the loop is resumed at the index of the batch just fixed.
ResumeFromSame(idx) == idx

\* The index handleManualFixSave resumes the loop at (line 1912).
ResumeFrom(idx) == idx + 1

\* The retry answers with a decoded result (lines 1884-1912): its records
\* are appended, the counter is incremented, and handleProcessAll is called
\* for the next index, in the render handleManualFixSave was created in.
FixSucceeds ==
    /\ pc = "analyze"
    /\ caller = "fix"
    /\ \E result \in ServiceResults :
         LET newPapers == FixedPapers(result, clBatchCount, resumeIndex)
         IN  /\ papers' = papers \o newPapers
             /\ everMerged' = everMerged \cup Ids(newPapers)
    /\ batchCount' = batchCount + 1
    /\ merges' = [merges EXCEPT ![resumeIndex] = @ + 1]
    /\ mergedOfInput' = [mergedOfInput EXCEPT ![resumeIndex] = @ + 1]
    /\ handleProcessAll(ResumeFrom(resumeIndex), clInputText, clPapers, clBatchCount,
                        submits)
    /\ newText' = NoText
    /\ resumeIndex' = 0
    /\ clPapers' = << >>
    /\ clBatchCount' = 0
    /\ clInputText' = ""
    /\ lastStep' = "fixMerge"
    /\ lastError' = ""
    /\ UNCHANGED <<apiKey, manualFixState, quotaErrorOpen>>
    /\ UNCHANGED <<runs, fixes, fixAt, idsAtPause, submitsAtPause>>
    /\ UNCHANGED consRest
    /\ UNCHANGED segVars
    /\ UNCHANGED enhVars

\* The retry throws, whatever the error (lines 1914-1918): the window opens
\* again on the text that was submitted.
FixFails ==
    /\ pc = "analyze"
    /\ caller = "fix"
    /\ \E kind \in ErrorKinds :
         /\ ~ShouldRetry(kind, retries)
         /\ lastError' = kind
    /\ error' = "FixFailed"
    /\ manualFixState' =
          [isOpen |-> TRUE, text |-> newText, batchIndex |-> resumeIndex]
    /\ isProcessing' = FALSE
    /\ pc' = "idle"
    /\ caller' = "loop"
    /\ retries' = 0
    /\ failed' = 0
    /\ delays' = 0
    /\ newText' = NoText
    /\ resumeIndex' = 0
    /\ clPapers' = << >>
    /\ clBatchCount' = 0
    /\ clInputText' = ""
    /\ stopReq' = FALSE
    /\ lastStep' = "fixFailed"
    /\ UNCHANGED <<apiKey, inputText, papers, batchCount, stopSignal,
                   quotaErrorOpen>>
    /\ UNCHANGED <<rawText, i, accumulatedPapers, localBatchCounter>>
    /\ UNCHANGED <<runs, fixes, everMerged, mergedOfInput, merges, submits, fixAt, idsAtPause,
                   submitsAtPause, submittedAfterStop>>
    /\ UNCHANGED consVars
    /\ UNCHANGED segVars
    /\ UNCHANGED enhVars

\* "Stop Extraction" or the cross of the Data Repair window (line 2661).
ManualFixCancel ==
    /\ manualFixState.isOpen
    /\ manualFixState' = NoFix
    /\ isProcessing' = FALSE
    /\ lastStep' = "fixCancel"
    /\ lastError' = ""
    /\ UNCHANGED <<apiKey, inputText, papers, batchCount, stopSignal,
                   quotaErrorOpen, error>>
    /\ UNCHANGED <<runVars, fixVars, callHist>>
    /\ UNCHANGED <<runs, fixes, everMerged, mergedOfInput, merges, submits, fixAt, idsAtPause,
                   submitsAtPause, stopReq, submittedAfterStop>>
    /\ UNCHANGED consVars
    /\ UNCHANGED segVars
    /\ UNCHANGED enhVars

(* ---------------------- consolidation engine -------------------------- *)

\* What the consolidation handlers leave alone of the pipeline.
pipeRest == <<inputText, batchCount, isProcessing, stopSignal, manualFixState,
              quotaErrorOpen, runVars, fixVars, callHist, runs, fixes, everMerged, mergedOfInput, merges,
              submits, fixAt, idsAtPause, submitsAtPause, stopReq,
              submittedAfterStop>>

\* reader.onload of importStateJSON (lines 2382-2404) on the document json:
\* the corpus, the topic and the normalization flag are replaced by the
\* file's; proposals, locks and the Rejection Log stay.
LoadState(json) ==
    /\ papers' = [k \in 1..Len(json.papers) |-> parsePaper(json.papers[k])]
    /\ reviewTopic' = OrElse(json.reviewTopic, <<"">>)[1]
    /\ isTermsNormalized' = (json.isTermsNormalized # Undefined
                                /\ json.isTermsNormalized[1])
    /\ error' = "Loaded"
    /\ lastError' = ""
    /\ UNCHANGED <<apiKey, pipeRest, consolidationSuggestions>>
    /\ UNCHANGED <<rejectedSuggestions, lockedItems, isConsolidating,
                   clLockedItems, consRuns, lockToggles, lastSuggestion>>
    /\ UNCHANGED segVars
    /\ UNCHANGED <<enhPc, enhRetries, verifyVars, editingItem, savedFile, lastReply,
                   exportedState>>

\* importStateJSON (lines 2378-2407) of a file that was not made by this
\* session: it has the records only, a key that is not in the file being
\* shown as undefined.
importStateJSON ==
    /\ ~ModalOpen
    /\ imports < MaxImports
    /\ imports' = imports + 1
    /\ \E file \in ImportFiles :
         LoadState([papers |-> file, reviewTopic |-> Undefined,
                    isTermsNormalized |-> Undefined])
    /\ lastStep' = "import"

\* exportStateJSON (lines 2362-2376): the document is downloaded; nothing
\* happens on an empty corpus.
exportStateJSON ==
    /\ ~ModalOpen
    /\ Len(papers) > 0
    /\ savedFile' = <<StateDocument(papers, <<reviewTopic>>, <<isTermsNormalized>>)>>
    /\ exportedState' = <<[papers |-> papers, reviewTopic |-> reviewTopic,
                           isTermsNormalized |-> isTermsNormalized]>>
    /\ lastStep' = "export"
    /\ lastError' = ""
    /\ UNCHANGED <<apiKey, papers, error, pipeRest, consVars, segVars>>
    /\ UNCHANGED <<reviewTopic, isTermsNormalized, enhPc, enhRetries, verifyVars, editingItem,
                   lastReply>>

\* importStateJSON (lines 2378-2407) of the file downloaded last.
importSavedFile ==
    /\ ~ModalOpen
    /\ savedFile # << >>
    /\ LoadState(savedFile[1])
    /\ lastStep' = "importSaved"
    /\ UNCHANGED imports

\* The user edits the Topic field (line 2678).
SetReviewTopic ==
    /\ ~ModalOpen
    /\ \E topic \in Topics \ {reviewTopic} : reviewTopic' = topic
    /\ lastStep' = "topic"
    /\ lastError' = ""
    /\ UNCHANGED <<apiKey, papers, error, pipeRest, consVars, segVars>>
    /\ UNCHANGED <<isTermsNormalized, enhPc, enhRetries, verifyVars, editingItem, savedFile,
                   lastReply, exportedState>>

\* The lock icons of the taxonomy tree (lines 2581, 2627): one per category
\* and one per theme of a category.
TreeKeys(ps) ==
    {CatKey(ps[k].category) : k \in 1..Len(ps)}
        \cup {ThemeKey(ps[k].category, ps[k].theme) : k \in 1..Len(ps)}

\* toggleLock (lines 1543-1547)
toggleLock ==
    /\ ~ModalOpen
    /\ lockToggles < MaxLockToggles
    /\ lockToggles' = lockToggles + 1
    /\ \E key \in TreeKeys(papers) :
         lockedItems' = IF key \in lockedItems THEN lockedItems \ {key}
                        ELSE lockedItems \cup {key}
    /\ lastStep' = "lock"
    /\ lastError' = ""
    /\ UNCHANGED <<apiKey, papers, error, pipeRest>>
    /\ UNCHANGED <<consolidationSuggestions, rejectedSuggestions, isConsolidating,
                   clLockedItems, consRuns, imports, lastSuggestion>>
    /\ UNCHANGED segVars
    /\ UNCHANGED enhVars

(* --------------------------- manual renaming -------------------------- *)

\* What the editing handlers leave alone.
editRest == <<apiKey, error, pipeRest, consolidationSuggestions,
              rejectedSuggestions, isConsolidating, clLockedItems, consRuns,
              lockToggles, imports, lastSuggestion, segVars, reviewTopic,
              isTermsNormalized, enhPc, enhRetries, verifyVars, savedFile,
              lastReply, exportedState>>

\* startEditing (lines 1549-1552), from the pencil of a category or of a
\* theme of the tree (lines 2576, 2623): the field holds the present name.
startEditing ==
    /\ ~ModalOpen
    /\ editingItem = NoEdit
    /\ \E key \in TreeKeys(papers) :
         editingItem' = EditingItem(key, IF key.type = "cat" THEN <<key.cat>>
                                         ELSE key.theme)
    /\ lastStep' = "startEdit"
    /\ lastError' = ""
    /\ UNCHANGED <<papers, lockedItems>>
    /\ UNCHANGED editRest

\* onChange of the input field (lines 2566, 2614).
changeEditing ==
    /\ ~ModalOpen
    /\ editingItem # NoEdit
    /\ \E value \in (IF editingItem.type = "cat" THEN CategoryValues
                     ELSE ThemeValues) \ {editingItem.value} :
         editingItem' = [editingItem EXCEPT !.value = value]
    /\ lastStep' = "changeEdit"
    /\ lastError' = ""
    /\ UNCHANGED <<papers, lockedItems>>
    /\ UNCHANGED editRest

\* originalName of editingItem, as the text of the field.
originalName(item) == IF item.type = "cat" THEN <<item.id.cat>> ELSE item.id.theme

\* Lines 1563-1571: the record after the rename of item to trimmed.  A
\* category name is the one character of its text.
renamedPaper(item, trimmed, p) ==
    IF item.type = "cat" /\ p.category = item.id.cat
    THEN [p EXCEPT !.category = trimmed[1]]
    ELSE IF item.type = "theme" /\ p.category = item.id.cat
                                /\ p.theme = item.id.theme
    THEN [p EXCEPT !.theme = trimmed]
    ELSE p

\* Lines 1574-1581: "Migrate locks if necessary".
migratedLocks(item, trimmed, locks) ==
    LET oldKey == item.id
        newKey == IF item.type = "cat" THEN CatKey(trimmed[1])
                  ELSE ThemeKey(item.id.cat, trimmed)
    IN  IF oldKey \in locks THEN (locks \ {oldKey}) \cup {newKey} ELSE locks

\* saveEditing (lines 1554-1585), on Enter, on blur and from the check button.
saveEditing ==
    /\ ~ModalOpen
    /\ editingItem # NoEdit
    /\ LET trimmed == trim(editingItem.value)
       IN  IF trimmed = << >> \/ trimmed = originalName(editingItem)
           THEN /\ UNCHANGED <<papers, lockedItems>>
                /\ lastStep' = "editDropped"
           ELSE /\ papers' = [k \in 1..Len(papers) |->
                                 renamedPaper(editingItem, trimmed, papers[k])]
                /\ lockedItems' = migratedLocks(editingItem, trimmed, lockedItems)
                /\ lastStep' = "edit"
    /\ editingItem' = NoEdit
    /\ lastError' = ""
    /\ UNCHANGED editRest

\* handleConsolidateThemes up to its await (lines 2150-2175); the button is
\* disabled without records, without a key and while a run is in flight.
handleConsolidateThemes ==
    /\ ~ModalOpen
    /\ Len(papers) > 0
    /\ apiKey
    /\ ~isConsolidating
    /\ consRuns < MaxConsRuns
    /\ consRuns' = consRuns + 1
    /\ isConsolidating' = TRUE
    /\ consolidationSuggestions' = << >>
    /\ clLockedItems' = lockedItems
    /\ lastStep' = "consolidate"
    /\ lastError' = ""
    /\ UNCHANGED <<apiKey, papers, error, pipeRest>>
    /\ enhPc' = "consolidate"
    /\ enhRetries' = 0
    /\ lastReply' = << >>
    /\ UNCHANGED <<rejectedSuggestions, lockedItems, lockToggles, imports,
                   lastSuggestion>>
    /\ UNCHANGED segVars
    /\ UNCHANGED <<reviewTopic, isTermsNormalized, verifyVars, editingItem, savedFile,
                   exportedState>>

\* Mutant: a theme merged into itself is let through.
ValidMergeKeepsSelf(s, locks) ==
    IF s.suggested_merge = << >> THEN << >>
    ELSE LET themes_to_combine == s.suggested_merge[1].themes_to_combine
             cleanThemes == [k \in 1..Len(themes_to_combine) |->
                                trim(themes_to_combine[k])]
             involvesLocked ==
                 \E k \in 1..Len(cleanThemes) :
                     ThemeKey(s.main_category, cleanThemes[k]) \in locks
         IN  IF Len(cleanThemes) > 0 /\ ~involvesLocked
             THEN s.suggested_merge ELSE << >>

\* 1. Check MERGE Validity (lines 2183-2199)
ValidMerge(s, locks) ==
    IF s.suggested_merge = << >> THEN << >>
    ELSE LET themes_to_combine == s.suggested_merge[1].themes_to_combine
             cleanNewName == trim(s.suggested_merge[1].new_theme_name)
             cleanThemes == [k \in 1..Len(themes_to_combine) |->
                                trim(themes_to_combine[k])]
             isSelfMerge == Len(cleanThemes) = 1 /\ cleanThemes[1] = cleanNewName
             involvesLocked ==
                 \E k \in 1..Len(cleanThemes) :
                     ThemeKey(s.main_category, cleanThemes[k]) \in locks
         IN  IF ~isSelfMerge /\ Len(cleanThemes) > 0 /\ ~involvesLocked
             THEN s.suggested_merge ELSE << >>

\* 2. Check MOVE Validity (lines 2201-2210)
ValidMove(s, locks) ==
    IF s.suggested_move = << >> THEN << >>
    ELSE LET m == s.suggested_move[1]
             isLocked == ThemeKey(m.current_category, m.theme) \in locks
         IN  IF m.current_category # m.target_category /\ ~isLocked
             THEN s.suggested_move ELSE << >>

\* 3. Check CATEGORY MERGE Validity (lines 2212-2221)
ValidCategoryMerge(s, locks) ==
    IF s.suggested_category_merge = << >> THEN << >>
    ELSE LET m == s.suggested_category_merge[1]
             isLocked == \/ CatKey(m.source_category) \in locks
                         \/ CatKey(m.target_category) \in locks
         IN  IF m.source_category # m.target_category /\ ~isLocked
             THEN s.suggested_category_merge ELSE << >>

\* 4. Check RENAME Validity (lines 2223-2232)
ValidRename(s, locks) ==
    IF s.suggested_rename = << >> THEN << >>
    ELSE LET m == s.suggested_rename[1]
             isLocked == CatKey(m.current_name) \in locks
         IN  IF m.current_name # m.new_name /\ ~isLocked
             THEN s.suggested_rename ELSE << >>

isMeaningfulChange(s) ==
    \/ s.suggested_merge # << >>
    \/ s.suggested_rename # << >>
    \/ s.suggested_move # << >>
    \/ s.suggested_category_merge # << >>

\* The forEach of lines 2180-2244 and what is stored (lines 2246-2254).
suggestionsForUI(reply, locks) ==
    LET checked == [k \in 1..Len(reply) |->
                       Suggestion(reply[k].main_category,
                                  ValidMerge(reply[k], locks),
                                  ValidRename(reply[k], locks),
                                  ValidMove(reply[k], locks),
                                  ValidCategoryMerge(reply[k], locks))]
        kept == SelectSeq(checked, isMeaningfulChange)
    IN  IF Len(kept) = 0 THEN Placeholder
        ELSE [k \in 1..Len(kept) |-> WithId(kept[k], k)]

\* consolidateThemesWithGemini has answered with reply (lines 2175-2256).
\* The locks tested are those of the render the handler was called in.
consolidationAnswer(reply) ==
    /\ isConsolidating
    /\ enhPc = "consolidate"
    /\ consolidationSuggestions' = suggestionsForUI(reply, clLockedItems)
    /\ isConsolidating' = FALSE
    /\ UNCHANGED clLockedItems
    /\ enhPc' = "none"
    /\ lastError' = ""
    /\ UNCHANGED <<apiKey, papers, error, pipeRest>>
    /\ UNCHANGED <<rejectedSuggestions, lockedItems, consRuns, lockToggles,
                   imports, lastSuggestion>>
    /\ UNCHANGED segVars
    /\ UNCHANGED <<reviewTopic, isTermsNormalized, enhRetries, verifyVars, editingItem,
                   savedFile, exportedState>>

\* The service answers the consolidation request.
ConsolidationReturns ==
    /\ \E reply \in ServiceReplies : consolidationAnswer(reply)
    /\ lastStep' = "consolidated"
    /\ UNCHANGED lastReply

\* The service answers the consolidation request with a suggestion of any
\* form; the answer is remembered.
ConsolidationReturnsAny ==
    /\ \E reply \in AnyReplies :
         /\ consolidationAnswer(reply)
         /\ lastReply' = reply
    /\ lastStep' = "consolidated"

\* 1. Apply MERGE (lines 1930-1939)
ApplyMerge(suggestion, p) ==
    IF /\ suggestion.suggested_merge # << >>
       /\ p.category = suggestion.main_category
       /\ p.theme \in Range(suggestion.suggested_merge[1].themes_to_combine)
    THEN [p EXCEPT !.theme = suggestion.suggested_merge[1].new_theme_name]
    ELSE p

\* Mutant: the move takes every theme of the category along.
ApplyMoveWholeCategory(suggestion, p) ==
    IF /\ suggestion.suggested_move # << >>
       /\ p.category = suggestion.suggested_move[1].current_category
    THEN [p EXCEPT !.category = suggestion.suggested_move[1].target_category]
    ELSE p

\* 2. Apply MOVE (lines 1941-1950)
ApplyMove(suggestion, p) ==
    IF /\ suggestion.suggested_move # << >>
       /\ p.category = suggestion.suggested_move[1].current_category
       /\ p.theme = suggestion.suggested_move[1].theme
    THEN [p EXCEPT !.category = suggestion.suggested_move[1].target_category]
    ELSE p

\* 3. Apply CATEGORY MERGE (lines 1952-1960)
ApplyCategoryMerge(suggestion, p) ==
    IF /\ suggestion.suggested_category_merge # << >>
       /\ p.category = suggestion.suggested_category_merge[1].source_category
    THEN [p EXCEPT !.category =
                       suggestion.suggested_category_merge[1].target_category]
    ELSE p

\* 4. Apply RENAME (lines 1985-1995)
ApplyRename(suggestion, p) ==
    IF /\ suggestion.suggested_rename # << >>
       /\ p.category = suggestion.suggested_rename[1].current_name
    THEN [p EXCEPT !.category = suggestion.suggested_rename[1].new_name]
    ELSE p

\* The map callback of lines 1964-1980: the first matching branch returns.
UpdateForCategoryMerge(s, suggestionId, source_category, target_category) ==
    IF s.id = suggestionId THEN s
    ELSE IF s.main_category = source_category
    THEN [s EXCEPT !.main_category = target_category]
    ELSE IF /\ s.suggested_move # << >>
            /\ s.suggested_move[1].current_category = source_category
    THEN [s EXCEPT !.suggested_move[1].current_category = target_category]
    ELSE IF /\ s.suggested_move # << >>
            /\ s.suggested_move[1].target_category = source_category
    THEN [s EXCEPT !.suggested_move[1].target_category = target_category]
    ELSE s

\* The map callback of lines 1999-2026: the first matching branch returns.
UpdateForRename(s, suggestionId, current_name, new_name) ==
    IF s.id = suggestionId THEN s
    ELSE IF s.main_category = current_name
    THEN [s EXCEPT !.main_category = new_name]
    ELSE IF /\ s.suggested_move # << >>
            /\ s.suggested_move[1].current_category = current_name
    THEN [s EXCEPT !.suggested_move[1].current_category = new_name]
    ELSE IF /\ s.suggested_move # << >>
            /\ s.suggested_move[1].target_category = current_name
    THEN [s EXCEPT !.suggested_move[1].target_category = new_name]
    ELSE IF /\ s.suggested_category_merge # << >>
            /\ s.suggested_category_merge[1].source_category = current_name
    THEN [s EXCEPT !.suggested_category_merge[1].source_category = new_name]
    ELSE IF /\ s.suggested_category_merge # << >>
            /\ s.suggested_category_merge[1].target_category = current_name
    THEN [s EXCEPT !.suggested_category_merge[1].target_category = new_name]
    ELSE s

\* The pending list handleAcceptSuggestion stores: both maps start from the
\* list of the render, the later setConsolidationSuggestions wins, and the
\* accepted proposal is filtered out (lines 1963-1982, 1998-2028, 2035).
updatedSuggestions(suggestion, list) ==
    LET mapped ==
            IF suggestion.suggested_rename # << >>
            THEN [k \in 1..Len(list) |->
                     UpdateForRename(list[k], suggestion.id,
                                     suggestion.suggested_rename[1].current_name,
                                     suggestion.suggested_rename[1].new_name)]
            ELSE IF suggestion.suggested_category_merge # << >>
            THEN [k \in 1..Len(list) |->
                     UpdateForCategoryMerge(list[k], suggestion.id,
                         suggestion.suggested_category_merge[1].source_category,
                         suggestion.suggested_category_merge[1].target_category)]
            ELSE list
        IsOther(s) == s.id # suggestion.id
    IN  SelectSeq(mapped, IsOther)

\* The proposals are listed with their buttons unless the first is the
\* placeholder (line 2468).
ButtonsShown ==
    /\ ~ModalOpen
    /\ consolidationSuggestions # << >>
    /\ consolidationSuggestions[1].id # OkId

\* handleAcceptSuggestion (lines 1924-2036)
handleAcceptSuggestion ==
    /\ ButtonsShown
    /\ \E n \in 1..Len(consolidationSuggestions) :
         LET suggestion == consolidationSuggestions[n]
         IN  /\ papers' = [k \in 1..Len(papers) |->
                             ApplyRename(suggestion,
                               ApplyCategoryMerge(suggestion,
                                 ApplyMove(suggestion,
                                   ApplyMerge(suggestion, papers[k]))))]
             /\ consolidationSuggestions' =
                    updatedSuggestions(suggestion, consolidationSuggestions)
             /\ lastSuggestion' = suggestion
    /\ lastStep' = "accept"
    /\ lastError' = ""
    /\ UNCHANGED <<apiKey, error, pipeRest>>
    /\ UNCHANGED <<rejectedSuggestions, lockedItems, isConsolidating,
                   clLockedItems, consRuns, lockToggles, imports>>
    /\ UNCHANGED segVars
    /\ UNCHANGED enhVars

\* handleRejectSuggestion (lines 2039-2050)
handleRejectSuggestion ==
    /\ ButtonsShown
    /\ \E n \in 1..Len(consolidationSuggestions) :
         LET suggestion == consolidationSuggestions[n]
             signature == getSuggestionSignature(suggestion)
             IsOther(s) == s.id # suggestion.id
         IN  /\ rejectedSuggestions' =
                    IF signature.kind # "" THEN Append(rejectedSuggestions, signature)
                    ELSE rejectedSuggestions
             /\ consolidationSuggestions' =
                    SelectSeq(consolidationSuggestions, IsOther)
             /\ lastSuggestion' = suggestion
    /\ lastStep' = "reject"
    /\ lastError' = ""
    /\ UNCHANGED <<apiKey, papers, error, pipeRest>>
    /\ UNCHANGED <<lockedItems, isConsolidating, clLockedItems, consRuns,
                   lockToggles, imports>>
    /\ UNCHANGED segVars
    /\ UNCHANGED enhVars

(* ------------------ failures of the enhancement requests ------------- *)

\* Mutant: the wrappers retry without a ceiling.
WrapperRetriesNoCeiling(kind, r) == kind # "Quota"

\* The catch of the three wrappers (lines 605-609, 697-703, 775-779):
\* (error.name === "RetryableError" || !error.name.includes("Quota"))
\* && retries < maxRetries.
WrapperRetries(kind, r) ==
    (kind = "Retryable" \/ kind # "Quota") /\ r < maxRetriesEnh

\* The wrapper returns its "no changes" value instead of retrying.
WrapperGivesUp(kind, r) == ~WrapperRetries(kind, r)

\* auditTaxonomyWithGemini: a call fails and is repeated after wait(3000)
\* (lines 605-607).
AuditCallFails ==
    /\ pc = "audit"
    /\ \E kind \in ErrorKinds : WrapperRetries(kind, retries)
    /\ retries' = retries + 1
    /\ lastStep' = "auditRetry"
    /\ lastError' = ""
    /\ UNCHANGED <<stateVars, pc, caller, rawText, i, accumulatedPapers,
                   localBatchCounter, fixVars, callHist, consVars, segVars,
                   enhVars>>
    /\ UNCHANGED <<runs, fixes, everMerged, mergedOfInput, merges, submits, fixAt, idsAtPause,
                   submitsAtPause, stopReq, submittedAfterStop>>

\* auditTaxonomyWithGemini: a call fails and { fixes: [] } is returned
\* (line 608); handleProcessAll goes on from line 1833 without a fix.
AuditGivesUp ==
    /\ pc = "audit"
    /\ \E kind \in ErrorKinds : WrapperGivesUp(kind, retries)
    /\ papers' = papers
    /\ error' = "Done"
    /\ RunEnds
    /\ lastStep' = "auditGaveUp"
    /\ lastError' = ""
    /\ UNCHANGED <<apiKey, batchCount, manualFixState, quotaErrorOpen>>
    /\ UNCHANGED <<fixVars, runs, fixes, everMerged, mergedOfInput, merges, submits, fixAt,
                   idsAtPause, submitsAtPause, submittedAfterStop>>
    /\ UNCHANGED consVars
    /\ UNCHANGED segVars
    /\ UNCHANGED enhVars

\* consolidateThemesWithGemini: a call fails and is repeated (lines 697-699).
ConsolidationCallFails ==
    /\ isConsolidating
    /\ enhPc = "consolidate"
    /\ \E kind \in ErrorKinds : WrapperRetries(kind, enhRetries)
    /\ enhRetries' = enhRetries + 1
    /\ lastStep' = "consRetry"
    /\ lastError' = ""
    /\ UNCHANGED <<apiKey, papers, error, pipeRest, consVars, segVars>>
    /\ UNCHANGED <<reviewTopic, isTermsNormalized, enhPc, verifyVars, editingItem, savedFile,
                   lastReply, exportedState>>

\* consolidateThemesWithGemini: a call fails and { status: "no_changes",
\* suggestions: [] } is returned (lines 700-703).
ConsolidationGivesUp ==
    /\ \E kind \in ErrorKinds : WrapperGivesUp(kind, enhRetries)
    /\ consolidationAnswer(<< >>)
    /\ lastStep' = "consGaveUp"
    /\ UNCHANGED lastReply

(* ------------------------- term normalization ------------------------- *)

\* What the normalization handler leaves alone.
optimizeRest == <<apiKey, pipeRest, consolidationSuggestions, rejectedSuggestions,
                  lockedItems, clLockedItems, consRuns, lockToggles, imports,
                  lastSuggestion, segVars, reviewTopic, verifyVars, editingItem, savedFile,
                  exportedState>>

\* handleOptimizeTerms up to its await (lines 1661-1671).  The button is
\* disabled without records, without a key, while a run is in flight and
\* when the terms are normalized (line 1124).
handleOptimizeTerms ==
    /\ ~ModalOpen
    /\ Len(papers) > 0
    /\ apiKey
    /\ ~isConsolidating
    /\ ~isTermsNormalized
    /\ isConsolidating' = TRUE
    /\ error' = ""
    /\ enhPc' = "optimize"
    /\ enhRetries' = 0
    /\ lastReply' = << >>
    /\ lastStep' = "optimize"
    /\ lastError' = ""
    /\ UNCHANGED <<papers, isTermsNormalized>>
    /\ UNCHANGED optimizeRest

\* One entry of optimization.moves (lines 192-201): of the new_ fields the
\* driver, its group and the category.
OptimizationMove(id, driver, group, category) ==
    [paper_id |-> id, new_driver |-> driver, new_driver_group |-> group,
     new_category |-> category]

\* What the service may answer for the corpora above: new terms for the
\* first record, a new category for the second, nothing new for the second,
\* and new terms for a record that is not there.
OptimizationMoves ==
    { OptimizationMove([b |-> 1, fixed |-> FALSE, idx |-> 0],
                       <<"Precipitation">>, <<"Climate">>, Undefined),
      OptimizationMove([b |-> 1, fixed |-> FALSE, idx |-> 1],
                       Undefined, Undefined, <<"B">>),
      OptimizationMove([b |-> 1, fixed |-> FALSE, idx |-> 1],
                       Undefined, Undefined, Undefined),
      OptimizationMove([b |-> 9, fixed |-> FALSE, idx |-> 0],
                       <<"Precipitation">>, Undefined, <<"C">>) }

\* optimization.moves of one answer.
OptimizationResults ==
    UNION {[1..n -> OptimizationMoves] : n \in 0..MaxReply}

\* movesMap.get(id) (line 1678): the last move of the answer for the id,
\* << >> if there is none.
movesMapGet(moves, id) ==
    LET hits == {k \in 1..Len(moves) : moves[k].paper_id = id}
    IN  IF hits = {} THEN << >>
        ELSE <<moves[CHOOSE k \in hits : \A m \in hits : m <= k]>>

\* Mutant: a record without a move takes the first move of the answer.
normalizedPaperFirstMove(moves, p) ==
    LET move == moves[1]
    IN  [p EXCEPT
            !.driver = OrElse(move.new_driver, p.driver),
            !.driverGroup = OrElse(move.new_driver_group,
                                   OrElse(move.new_driver, p.driver)),
            !.category = IF move.new_category = Undefined THEN p.category
                         ELSE move.new_category[1]]

\* The map of lines 1680-1700 on one record.
normalizedPaper(moves, p) ==
    LET found == movesMapGet(moves, p.id)
    IN  IF found = << >> THEN p
        ELSE LET move == found[1]
             IN  [p EXCEPT
                     !.driver = OrElse(move.new_driver, p.driver),
                     !.driverGroup = OrElse(move.new_driver_group,
                                            OrElse(move.new_driver, p.driver)),
                     !.category = IF move.new_category = Undefined THEN p.category
                                  ELSE move.new_category[1]]

\* optimizeStructureWithGemini has answered with moves (lines 1677-1712).
optimizationAnswer(moves) ==
    /\ isConsolidating
    /\ enhPc = "optimize"
    /\ papers' = IF Len(moves) > 0
                 THEN [k \in 1..Len(papers) |-> normalizedPaper(moves, papers[k])]
                 ELSE papers
    /\ isTermsNormalized' = TRUE
    /\ error' = (IF Len(moves) > 0 THEN "Normalized" ELSE "NoFieldChanges")
    /\ isConsolidating' = FALSE
    /\ enhPc' = "none"
    /\ lastReply' = moves
    /\ lastError' = ""
    /\ UNCHANGED enhRetries
    /\ UNCHANGED optimizeRest

\* The service answers the normalization request.
OptimizationReturns ==
    /\ \E moves \in OptimizationResults : optimizationAnswer(moves)
    /\ lastStep' = "optimized"

\* optimizeStructureWithGemini: a call fails and is repeated (lines 775-777).
OptimizationCallFails ==
    /\ isConsolidating
    /\ enhPc = "optimize"
    /\ \E kind \in ErrorKinds : WrapperRetries(kind, enhRetries)
    /\ enhRetries' = enhRetries + 1
    /\ lastStep' = "optRetry"
    /\ lastError' = ""
    /\ UNCHANGED <<apiKey, papers, error, pipeRest, consVars, segVars>>
    /\ UNCHANGED <<reviewTopic, isTermsNormalized, enhPc, verifyVars, editingItem, savedFile,
                   lastReply, exportedState>>

\* optimizeStructureWithGemini: a call fails and { moves: [] } is returned
\* (line 778).
OptimizationGivesUp ==
    /\ \E kind \in ErrorKinds : WrapperGivesUp(kind, enhRetries)
    /\ optimizationAnswer(<< >>)
    /\ lastStep' = "optGaveUp"

(* ------------------- verifying and reversing a proposal --------------- *)

\* What the verify and reverse handlers leave alone.
verifyRest == <<apiKey, papers, error, pipeRest, consRest, segVars, reviewTopic,
                editingItem,
                isTermsNormalized, enhPc, enhRetries, savedFile, lastReply,
                exportedState>>

\* The proposal the handler in flight was called for is s.  Ids are random
\* strings (line 2236): an id of an earlier list names nothing in a later one.
IsTheOne(s) == s.id = verifyingSuggestionId /\ consRuns = clConsRuns

\* themePapers of handleVerifyMove (lines 2125-2128): the titles of the
\* records of the theme in its current category.
themePapers(ps, move) ==
    LET InTheme(p) == p.category = move.current_category /\ p.theme = move.theme
        found == SelectSeq(ps, InTheme)
    IN  [k \in 1..Len(found) |-> found[k].title]

\* handleVerifyMove up to its await (lines 2116-2133).  The button shows on
\* a move that is not verified and is disabled while a request is in flight
\* (lines 2508-2513).
handleVerifyMove ==
    /\ ButtonsShown
    /\ verifyingSuggestionId = 0
    /\ verifies < MaxVerifies
    /\ verifies' = verifies + 1
    /\ \E n \in 1..Len(consolidationSuggestions) :
         LET suggestion == consolidationSuggestions[n]
         IN  /\ suggestion.suggested_move # << >>
             /\ ~suggestion.isVerified
             /\ IF Len(themePapers(papers, suggestion.suggested_move[1])) = 0
                THEN \* return; finally setVerifyingSuggestionId(null)
                     /\ lastStep' = "verifySkipped"
                     /\ UNCHANGED <<verifyingSuggestionId, verifyPc, clSuggestion,
                                    clConsRuns>>
                ELSE /\ verifyingSuggestionId' = suggestion.id
                     /\ verifyPc' = "verify"
                     /\ clSuggestion' = suggestion
                     /\ clConsRuns' = consRuns
                     /\ lastStep' = "verify"
    /\ lastError' = ""
    /\ UNCHANGED consolidationSuggestions
    /\ UNCHANGED verifyRest

\* Mutant: a move found invalid stays in the list.
verifiedListKeepsInvalid(list, isValid) ==
    IF isValid
    THEN [k \in 1..Len(list) |->
             IF IsTheOne(list[k]) THEN [list[k] EXCEPT !.isVerified = TRUE]
             ELSE list[k]]
    ELSE list

\* Mutant: a move found invalid takes the whole list with it.
verifiedListClearsAll(list, isValid) ==
    IF isValid
    THEN [k \in 1..Len(list) |->
             IF IsTheOne(list[k]) THEN [list[k] EXCEPT !.isVerified = TRUE]
             ELSE list[k]]
    ELSE << >>

\* The two updates of lines 2135-2141: mark as verified, or remove.
verifiedList(list, isValid) ==
    LET IsOther(s) == ~IsTheOne(s)
    IN  IF isValid
        THEN [k \in 1..Len(list) |->
                 IF IsTheOne(list[k]) THEN [list[k] EXCEPT !.isVerified = TRUE]
                 ELSE list[k]]
        ELSE SelectSeq(list, IsOther)

\* verifyMoveWithGemini answers or throws (lines 2133-2147); it does not
\* retry (lines 424-428).
VerifyReturns ==
    /\ verifyPc = "verify"
    /\ \E outcome \in {"verified", "verifiedInvalid", "verifyThrew"} :
         /\ consolidationSuggestions' =
                IF outcome = "verifyThrew" THEN consolidationSuggestions
                ELSE verifiedList(consolidationSuggestions, outcome = "verified")
         /\ lastStep' = outcome
    /\ verifyingSuggestionId' = 0
    /\ verifyPc' = "none"
    /\ clSuggestion' = NoSuggestion
    /\ clConsRuns' = 0
    /\ lastError' = ""
    /\ UNCHANGED verifies
    /\ UNCHANGED verifyRest

\* handleReverseSuggestion up to its await (lines 2053-2063, 2080-2086).
\* The button shows on a category merge and on a move (line 2520).
handleReverseSuggestion ==
    /\ ButtonsShown
    /\ verifyingSuggestionId = 0
    /\ verifies < MaxVerifies
    /\ verifies' = verifies + 1
    /\ \E n \in 1..Len(consolidationSuggestions) :
         LET suggestion == consolidationSuggestions[n]
         IN  /\ \/ suggestion.suggested_category_merge # << >>
                \/ suggestion.suggested_move # << >>
             /\ verifyingSuggestionId' = suggestion.id
             /\ clSuggestion' = suggestion
    /\ verifyPc' = "reverse"
    /\ clConsRuns' = consRuns
    /\ lastStep' = "reverse"
    /\ lastError' = ""
    /\ UNCHANGED consolidationSuggestions
    /\ UNCHANGED verifyRest

\* The two updates of lines 2066-2078 and 2089-2103, on the suggestion found
\* when the handler was called.
reversedList(list, found) ==
    IF found.suggested_category_merge # << >>
    THEN \* CASE 1: the category merge is flipped in place
         [k \in 1..Len(list) |->
             IF IsTheOne(list[k]) /\ list[k].suggested_category_merge # << >>
             THEN [list[k] EXCEPT !.suggested_category_merge =
                      CategoryMerge(found.suggested_category_merge[1].target_category,
                                    found.suggested_category_merge[1].source_category)]
             ELSE list[k]]
    ELSE \* CASE 2: the move becomes a category merge of target into current
         [k \in 1..Len(list) |->
             IF IsTheOne(list[k])
             THEN [list[k] EXCEPT
                      !.suggested_move = << >>,
                      !.suggested_category_merge =
                          CategoryMerge(found.suggested_move[1].target_category,
                                        found.suggested_move[1].current_category)]
             ELSE list[k]]

\* reverseSuggestionWithGemini answers with a reason, without one, or throws
\* (lines 2063-2111); it does not retry (lines 450-454).
ReverseReturns ==
    /\ verifyPc = "reverse"
    /\ \E outcome \in {"reversed", "reverseNoReason", "reverseThrew"} :
         /\ consolidationSuggestions' =
                IF outcome = "reversed"
                THEN reversedList(consolidationSuggestions, clSuggestion)
                ELSE consolidationSuggestions
         /\ lastStep' = outcome
    /\ verifyingSuggestionId' = 0
    /\ verifyPc' = "none"
    /\ clSuggestion' = NoSuggestion
    /\ clConsRuns' = 0
    /\ lastError' = ""
    /\ UNCHANGED verifies
    /\ UNCHANGED verifyRest

(* ----------------------------- Segmenter ------------------------------ *)

\* text.slice(from, to) and text.slice(from), with 0-based indices
slice(text, from, to) == SubSeq(text, from + 1, to)

\* text.lastIndexOf(searchString, position): the greatest index not above
\* position at which searchString occurs, or -1.
RECURSIVE lastIndexOf(_, _, _)
lastIndexOf(text, searchString, position) ==
    IF position < 0 THEN -1
    ELSE IF /\ position + Len(searchString) <= Len(text)
            /\ slice(text, position, position + Len(searchString)) = searchString
    THEN position
    ELSE lastIndexOf(text, searchString, position - 1)

\* Mutant: the hard cut is made one character after the limit.
cutIndexPastLimit(rest, limit) ==
    IF lastIndexOf(rest, <<"\n", "\n">>, limit) # -1
    THEN lastIndexOf(rest, <<"\n", "\n">>, limit)
    ELSE IF lastIndexOf(rest, <<"\n">>, limit) # -1
    THEN lastIndexOf(rest, <<"\n">>, limit)
    ELSE limit + 1

\* Mutant: a single newline is preferred to a paragraph break.
cutIndexSingleFirst(rest, limit) ==
    IF lastIndexOf(rest, <<"\n">>, limit) # -1
    THEN lastIndexOf(rest, <<"\n">>, limit)
    ELSE limit

\* Mutant: there is no hard cut.
cutIndexNoHardCut(rest, limit) ==
    IF lastIndexOf(rest, <<"\n", "\n">>, limit) # -1
    THEN lastIndexOf(rest, <<"\n", "\n">>, limit)
    ELSE IF lastIndexOf(rest, <<"\n">>, limit) # -1
    THEN lastIndexOf(rest, <<"\n">>, limit)
    ELSE 0

\* The cut of one iteration of createBatches (lines 267-276).
cutIndex(rest, limit) ==
    IF lastIndexOf(rest, <<"\n", "\n">>, limit) # -1
    THEN lastIndexOf(rest, <<"\n", "\n">>, limit)
    ELSE IF lastIndexOf(rest, <<"\n">>, limit) # -1
    THEN lastIndexOf(rest, <<"\n">>, limit)
    ELSE limit

\* Everything the Segmenter leaves alone.
appVars == <<stateVars, runVars, fixVars, histVars, callHist, consVars, enhVars>>

\* createBatches(text, maxChunkSize) is called (lines 258-260), for every
\* text up to MaxTextLen characters and every limit up to MaxChunk.
InitSeg ==
    /\ AppInit
    /\ segText \in Texts
    /\ maxChunkSize \in 1..MaxChunk
    /\ remaining = segText
    /\ batches = << >>
    /\ segPc = "loop"

\* The iteration that pushes the rest and breaks (lines 262-265).
PushLast ==
    /\ segPc = "loop"
    /\ Len(remaining) > 0
    /\ Len(remaining) <= maxChunkSize
    /\ batches' = Append(batches, remaining)
    /\ segPc' = "done"
    /\ UNCHANGED <<segText, maxChunkSize, remaining, appVars>>

\* The iteration that cuts a chunk off (lines 267-279).
PushChunk ==
    /\ segPc = "loop"
    /\ Len(remaining) > maxChunkSize
    /\ batches' = Append(batches, slice(remaining, 0, cutIndex(remaining, maxChunkSize)))
    /\ remaining' = trim(slice(remaining, cutIndex(remaining, maxChunkSize),
                               Len(remaining)))
    /\ UNCHANGED <<segText, maxChunkSize, segPc, appVars>>

\* The while test fails: return batches (lines 261, 281).
LoopExit ==
    /\ segPc = "loop"
    /\ Len(remaining) = 0
    /\ segPc' = "done"
    /\ UNCHANGED <<segText, maxChunkSize, remaining, batches, appVars>>

NextSeg ==
    \/ PushLast
    \/ PushChunk
    \/ LoopExit

SpecSeg == InitSeg /\ [][NextSeg]_vars

\* The loop is sequential code: it goes on until it returns.
SpecSegLive == SpecSeg /\ WF_vars(NextSeg)

\* The taxonomy argument of the analyzeWithGemini call in flight: the loop
\* builds it of accumulatedPapers (line 1758), handleManualFixSave of the
\* papers of its render (line 1883).
taxonomyHint ==
    IF caller = "loop" THEN taxonomy(accumulatedPapers) ELSE taxonomy(clPapers)

(* --------------------------- specification ---------------------------- *)

Next ==
    \/ SetApiKey
    \/ PasteInput
    \/ Start
    \/ StartRefused
    \/ BatchSucceeds
    \/ WaitElapsed
    \/ CallRetried
    \/ BackoffElapsed
    \/ BatchParseFailure
    \/ BatchFails
    \/ AuditReturns
    \/ Stop
    \/ CloseQuotaModal
    \/ ManualFixSave
    \/ FixSucceeds
    \/ FixFails
    \/ ManualFixCancel

Spec == Init /\ [][Next]_vars

\* The extraction run alone, handleProcessAll from Start to rest: the manual
\* fix a paused run waits for is not taken.
NextLive ==
    \/ SetApiKey
    \/ PasteInput
    \/ Start
    \/ BatchSucceeds
    \/ WaitElapsed
    \/ CallRetried
    \/ BackoffElapsed
    \/ BatchParseFailure
    \/ BatchFails
    \/ AuditReturns
    \/ Stop

\* The steps that a service call which returns, or a timer which elapses,
\* takes: the awaits of analyzeWithGemini, of wait and of
\* auditTaxonomyWithGemini in handleProcessAll.
ServiceReturns ==
    \/ BatchSucceeds
    \/ WaitElapsed
    \/ CallRetried
    \/ BackoffElapsed
    \/ BatchParseFailure
    \/ BatchFails
    \/ AuditReturns

\* Every service call returns and every delay elapses.
SpecLive == Init /\ [][NextLive]_vars /\ WF_vars(ServiceReturns)

\* The consolidation engine on a loaded corpus, the pipeline at rest.
NextCons ==
    \/ SetApiKey
    \/ importStateJSON
    \/ toggleLock
    \/ handleConsolidateThemes
    \/ ConsolidationReturns
    \/ handleAcceptSuggestion
    \/ handleRejectSuggestion

SpecCons == Init /\ [][NextCons]_vars

\* The records and their file: loading, normalizing, saving and loading
\* what was saved.
NextData ==
    \/ SetApiKey
    \/ SetReviewTopic
    \/ importStateJSON
    \/ handleOptimizeTerms
    \/ OptimizationReturns
    \/ exportStateJSON
    \/ importSavedFile

SpecData == Init /\ [][NextData]_vars

\* The pipeline without failures of the extraction, with the three
\* enhancement requests and their failures: the audit at the end of a run,
\* consolidation and normalization.  The audit may also answer; the answers
\* of the other two are in SpecCons and SpecData.
NextEnh ==
    \/ SetApiKey
    \/ PasteInput
    \/ Start
    \/ BatchSucceeds
    \/ WaitElapsed
    \/ AuditReturns
    \/ AuditCallFails
    \/ AuditGivesUp
    \/ handleConsolidateThemes
    \/ ConsolidationCallFails
    \/ ConsolidationGivesUp
    \/ handleOptimizeTerms
    \/ OptimizationCallFails
    \/ OptimizationGivesUp

SpecEnh == Init /\ [][NextEnh]_vars

\* The consolidation engine with the verify and reverse buttons of the
\* proposals (lines 2508-2528), no lock being set.
NextVerify ==
    \/ SetApiKey
    \/ importStateJSON
    \/ handleConsolidateThemes
    \/ ConsolidationReturns
    \/ handleRejectSuggestion
    \/ handleVerifyMove
    \/ VerifyReturns
    \/ handleReverseSuggestion
    \/ ReverseReturns

SpecVerify == Init /\ [][NextVerify]_vars

\* Consolidation runs under locks, answered with suggestions of any form,
\* with the reverse button of the proposals.
NextReverse ==
    \/ SetApiKey
    \/ importStateJSON
    \/ toggleLock
    \/ handleConsolidateThemes
    \/ ConsolidationReturnsAny
    \/ handleReverseSuggestion
    \/ ReverseReturns

SpecReverse == Init /\ [][NextReverse]_vars

\* The consolidation engine with all four buttons of the proposals: accept
\* and reject stay enabled while a verification or reversal is in flight
\* (lines 2530-2531).
NextRace ==
    \/ SetApiKey
    \/ importStateJSON
    \/ handleConsolidateThemes
    \/ ConsolidationReturns
    \/ handleAcceptSuggestion
    \/ handleRejectSuggestion
    \/ handleVerifyMove
    \/ VerifyReturns
    \/ handleReverseSuggestion
    \/ ReverseReturns

SpecRace == Init /\ [][NextRace]_vars

\* Renaming categories and themes of a loaded corpus by hand, under locks.
NextEdit ==
    \/ importStateJSON
    \/ toggleLock
    \/ startEditing
    \/ changeEditing
    \/ saveEditing

SpecEdit == Init /\ [][NextEdit]_vars

\* Renaming categories and themes by hand while an extraction run is under
\* way: the tree and its pencils are shown as soon as a batch is merged.
\* One run, up to the audit that follows its last batch.
NextRunEdit ==
    \/ SetApiKey
    \/ PasteInput
    \/ Start
    \/ BatchSucceeds
    \/ WaitElapsed
    \/ startEditing
    \/ changeEditing
    \/ saveEditing

SpecRunEdit == Init /\ [][NextRunEdit]_vars

\* Consolidation runs on a loaded corpus, answered with suggestions of any
\* form: what the filter of handleConsolidateThemes lets through.
NextFilter ==
    \/ SetApiKey
    \/ importStateJSON
    \/ toggleLock
    \/ handleConsolidateThemes
    \/ ConsolidationReturnsAny

SpecFilter == Init /\ [][NextFilter]_vars

\* The pipeline without failures together with consolidation runs: the two
\* buttons of the side panel (lines 2716, 2741-2743) on the same corpus.
NextBoth ==
    \/ SetApiKey
    \/ PasteInput
    \/ Start
    \/ StartRefused
    \/ BatchSucceeds
    \/ WaitElapsed
    \/ AuditReturns
    \/ handleConsolidateThemes
    \/ ConsolidationReturns

SpecBoth == Init /\ [][NextBoth]_vars

(* ------------------------- pipeline states ---------------------------- *)

\* AwaitingFix(batchIndex, text): the Data Repair window is open.
AwaitingFix == manualFixState.isOpen

\* FailedFatal: the run was ended by the catch block of handleProcessAll.
FailedFatal ==
    /\ pc = "idle"
    /\ ~isProcessing
    /\ ~manualFixState.isOpen
    /\ error \in {"StoppedError", "QuotaStop"}

(* ------------------------------ claims -------------------------------- *)

C2_NoRecordLost == everMerged \subseteq Ids(papers)

\* C8: after Stop was pressed during a call, no further batch is submitted.
C8_NoSubmitAfterStop == ~submittedAfterStop

\* C9: a call that fails to parse is not tried again and takes no retry:
\* the Data Repair window opens at once on the index of the batch that was
\* submitted and on the text that was submitted for it (in the loop, the
\* original text of the batch), never on the service's output; and when a
\* retry in the window succeeds its records are merged as that batch and the
\* loop goes on at the next index.
C9_ParseFailurePausesAtSameBatch ==
    [][ /\ (pc = "analyze" /\ lastError' = "Parse") =>
              /\ lastStep' \in {"pause", "fixFailed"}
              /\ pc' = "idle"
              /\ manualFixState'.isOpen
              /\ manualFixState'.text # ServiceOutput
              /\ papers' = papers
              /\ IF caller = "loop"
                 THEN /\ manualFixState'.batchIndex = i
                      /\ manualFixState'.text = TextOf(i)
                 ELSE /\ manualFixState'.batchIndex = resumeIndex
                      /\ manualFixState'.text = newText
                      /\ newText.idx = resumeIndex
        /\ (lastStep' = "fixMerge") =>
              /\ merges' = [merges EXCEPT ![resumeIndex] = @ + 1]
              /\ \A k \in 1..Len(papers') :
                    k > Len(papers) => papers'[k].src = resumeIndex
              /\ pc' = "analyze" => i' = resumeIndex + 1
      ]_vars

\* C9 witness: the window is open on batch 1 after a parse failure that
\* followed no retry, and batch 0 was merged before.
C9_Witness ==
    /\ lastStep = "pause"
    /\ lastError = "Parse"
    /\ manualFixState.batchIndex = 1
    /\ manualFixState.text = TextOf(1)
    /\ Len(papers) = 1

C11_FatalErrorsEndTheRun ==
    [][ (pc = "analyze" /\ lastError' \in {"ApiKey", "Quota"}) =>
            /\ lastStep' # "retry"
            /\ FailedFatal'
      ]_vars

\* C12 as claimed: a failure that is none of ApiKeyError, QuotaExceededError,
\* RetryableError or a parse failure is not retried and aborts the run.
C12_OtherErrorsNotRetried ==
    [][ (pc = "analyze" /\ lastError' = "Other") =>
            /\ lastStep' # "retry"
            /\ FailedFatal'
      ]_vars

\* C12 amended: such a failure is retried like a retryable one, on the same
\* batch and without merging, while fewer than maxRetries retries were made;
\* after that it is thrown: the batch loop ends the run with "Stopped: ..."
\* (FailedFatal, no quota window), a manual-fix retry reopens the Data Repair
\* window on the same batch.
C12_OtherErrorsRetriedToCeiling ==
    [][ (pc = "analyze" /\ lastError' = "Other") =>
            /\ papers' = papers
            /\ merges' = merges
            /\ IF retries < maxRetries
               THEN /\ lastStep' = "retry"
                    /\ pc' = "backoff"
                    /\ retries' = retries + 1
                    /\ i' = i
                    /\ caller' = caller
               ELSE IF caller = "loop"
               THEN /\ FailedFatal'
                    /\ error' = "StoppedError"
                    /\ quotaErrorOpen' = quotaErrorOpen
               ELSE /\ AwaitingFix'
                    /\ manualFixState'.batchIndex = resumeIndex
                    /\ manualFixState'.text = newText
      ]_vars

\* C12 witness: the sixth retry of a call of the batch loop, after an error
\* of the unclassified kind.
C12_Witness ==
    /\ lastStep = "retry"
    /\ lastError = "Other"
    /\ caller = "loop"
    /\ pc = "backoff"
    /\ retries = maxRetries

\* C13: while a call is awaited, every failed attempt so far has been
\* followed by one backoff delay and there were at most maxRetries of them;
\* the answer that comes after k failures is merged once: one merge of the
\* batch in the run, k delays taken, and the batch's records appended to the
\* corpus with identifiers no record of the corpus has.
C13_RetriedBatchMergedOnce ==
    /\ [](pc = "analyze" => (delays = failed /\ failed = retries /\ failed <= maxRetries))
    /\ [](pc = "backoff" => (delays + 1 = failed /\ failed = retries))
    /\ [][ lastStep' = "merge" =>
              /\ merges[i] = 0
              /\ merges' = [merges EXCEPT ![i] = 1]
              /\ delays' = failed
              /\ failed' = failed
              /\ Len(papers') = Len(accumulatedPapers) + 1
              /\ SubSeq(papers', 1, Len(accumulatedPapers)) = accumulatedPapers
              /\ papers'[Len(papers')].src = i
              /\ papers'[Len(papers')].id \notin Ids(accumulatedPapers)
              /\ Cardinality({k \in 1..Len(papers') :
                                 papers'[k].batchId = papers'[Len(papers')].batchId}) = 1
          ]_vars

\* C13 witness (Scenario B): batch 1 was merged after three failed attempts
\* and three delays.
C13_Witness ==
    /\ lastStep = "merge"
    /\ i = 1
    /\ failed = 3
    /\ delays = 3
    /\ merges[1] = 1
    /\ Len(papers) = 2

\* C14: a request is in flight only while the Start button shows Stop and no
\* window is open, so no second request can be started; and whenever batch j
\* is submitted (by the loop, or again from the Data Repair window), every
\* batch before j has been merged in this run, the records of batch j-1 are
\* in the corpus, and no batch after j has been submitted.
C14_BatchesInOrderOneAtATime ==
    /\ [](pc # "idle" => (isProcessing /\ ~manualFixState.isOpen /\ ~quotaErrorOpen))
    /\ [][ (pc' = "analyze" /\ lastStep' \in {"start", "next", "fixSubmit", "fixMerge"}) =>
              LET j == IF lastStep' = "fixSubmit" THEN resumeIndex' ELSE i'
              IN  /\ submits'[j] >= 1
                  /\ \A k \in 0..(j - 1) : merges'[k] >= 1
                  /\ \A k \in (j + 1)..(NumBatches - 1) : submits'[k] = 0
                  /\ j > 0 => \E n \in 1..Len(papers') : papers'[n].src = j - 1
                  /\ lastStep' = "start" => j = 0
                  /\ lastStep' = "next" => (j = i + 1 /\ pc = "wait")
          ]_vars

\* C14 witness: the last batch is submitted after the first two were merged.
C14_Witness ==
    /\ lastStep = "next"
    /\ pc = "analyze"
    /\ i = NumBatches - 1
    /\ \A k \in 0..(NumBatches - 2) : merges[k] = 1 /\ submits[k] = 1
    /\ submits[NumBatches - 1] = 1
    /\ Len(papers) = NumBatches - 1

\* C15: the audit is requested only by a run in which every batch was merged
\* and Stop was not pressed, which is neither paused in the Data Repair window
\* nor ended; its answer ends the run, so a run requests it at most once.
C15_AuditOnlyAfterUnstoppedCompleteRun ==
    [][ /\ (pc # "audit" /\ pc' = "audit") =>
              /\ \A k \in 0..(NumBatches - 1) : merges'[k] >= 1
              /\ ~stopReq'
              /\ ~stopSignal'
              /\ isProcessing'
              /\ ~AwaitingFix'
              /\ ~FailedFatal'
        /\ (pc = "audit" /\ pc' # "audit") => (pc' = "idle" /\ ~isProcessing')
      ]_vars

\* C17: no two records of the corpus have the same identifier.  (The model's
\* identifier is the part before the time stamp, `b${counter}-p${idx}` or
\* `b${count}-fixed-${idx}`: records that differ there differ in the program.)
C17_IdentifiersUnique ==
    \A m, n \in 1..Len(papers) : m # n => papers[m].id # papers[n].id

\* C17 witness: the corpus holds a record of the loop and, after it, a record
\* of a manual fix made with the same counter value.
C17_Witness ==
    /\ lastStep = "fixMerge"
    /\ \E m, n \in 1..Len(papers) :
           /\ m < n
           /\ ~papers[m].id.fixed
           /\ papers[n].id.fixed
           /\ papers[m].id.b = papers[n].id.b
           /\ papers[m].id.idx = papers[n].id.idx

\* C16: an extraction run and a consolidation run are never in progress at
\* the same time.
C16_NeverBothRunning ==
    ~((isProcessing \/ pc # "idle") /\ isConsolidating)

(* ------------------ properties of the consolidation engine ------------ *)

\* The places where a pending proposal names a category: its main category,
\* a move's current and target category, a category merge's source and
\* target ("" where the part is absent).
CategoryRefs(s) ==
    <<s.main_category,
      IF s.suggested_move # << >> THEN s.suggested_move[1].current_category ELSE "",
      IF s.suggested_move # << >> THEN s.suggested_move[1].target_category ELSE "",
      IF s.suggested_category_merge # << >>
          THEN s.suggested_category_merge[1].source_category ELSE "",
      IF s.suggested_category_merge # << >>
          THEN s.suggested_category_merge[1].target_category ELSE "">>

\* After the step, every proposal of before other than the accepted one is
\* still pending and names new wherever it named old.
Substituted(old, new, before, after, acceptedId) ==
    \A s \in Range(before) :
        s.id # acceptedId =>
            \E u \in Range(after) :
                /\ u.id = s.id
                /\ \A f \in 1..5 :
                       CategoryRefs(s)[f] = old => CategoryRefs(u)[f] = new

\* C3: accepting a rename X -> Y leaves no record with category X, and every
\* other pending proposal that named X as its main category, as a move's
\* current or target category, or as a category merge's source or target,
\* names Y in each of those places afterwards.
C3_RenameReachesEveryReference ==
    [][ (lastStep' = "accept" /\ lastSuggestion'.suggested_rename # << >>) =>
          LET X == lastSuggestion'.suggested_rename[1].current_name
              Y == lastSuggestion'.suggested_rename[1].new_name
          IN  /\ \A k \in 1..Len(papers') : papers'[k].category # X
              /\ Substituted(X, Y, consolidationSuggestions,
                             consolidationSuggestions', lastSuggestion'.id)
      ]_vars

\* C4: accepting a category merge source -> target moves every record of the
\* source category to the target, and every other pending proposal that named
\* the source (main category, move's current or target category, another
\* category merge's source or target) names the target afterwards.
C4_CategoryMergeReachesEveryReference ==
    [][ (/\ lastStep' = "accept"
         /\ lastSuggestion'.suggested_category_merge # << >>
         /\ lastSuggestion'.suggested_rename = << >>) =>
          LET source == lastSuggestion'.suggested_category_merge[1].source_category
              target == lastSuggestion'.suggested_category_merge[1].target_category
          IN  /\ \A k \in 1..Len(papers) :
                     papers[k].category = source => papers'[k].category = target
              /\ Substituted(source, target, consolidationSuggestions,
                             consolidationSuggestions', lastSuggestion'.id)
      ]_vars

\* C5: a consolidation run never puts into the pending list a proposal whose
\* signature is in the Rejection Log, whatever the service answers.
C5_RejectedNeverPendingAgain ==
    [][ lastStep' = "consolidated" =>
          \A s \in Range(consolidationSuggestions') :
              getSuggestionSignature(s) \notin Range(rejectedSuggestions)
      ]_vars

\* C6: a category locked when the run was started is not the subject of a
\* rename, the source or target of a category merge, or the current category
\* of a move among the proposals the run makes pending (it may be the target
\* of a move).
C6_LockedCategoryNotProposed ==
    [][ lastStep' = "consolidated" =>
          \A s \in Range(consolidationSuggestions') :
              /\ s.suggested_rename # << >> =>
                     CatKey(s.suggested_rename[1].current_name) \notin clLockedItems
              /\ s.suggested_category_merge # << >> =>
                     /\ CatKey(s.suggested_category_merge[1].source_category)
                            \notin clLockedItems
                     /\ CatKey(s.suggested_category_merge[1].target_category)
                            \notin clLockedItems
              /\ s.suggested_move # << >> =>
                     CatKey(s.suggested_move[1].current_category)
                         \notin clLockedItems
      ]_vars

\* C7: a (category, theme) pair locked when the run was started is neither
\* the theme a pending move proposal moves out of that category nor one of the
\* themes a pending theme merge in that category combines.
C7_LockedThemeNotProposed ==
    [][ lastStep' = "consolidated" =>
          \A s \in Range(consolidationSuggestions') :
              /\ s.suggested_move # << >> =>
                     ThemeKey(s.suggested_move[1].current_category,
                              s.suggested_move[1].theme) \notin clLockedItems
              /\ s.suggested_merge # << >> =>
                     \A t \in Range(s.suggested_merge[1].themes_to_combine) :
                         ThemeKey(s.main_category, t) \notin clLockedItems
      ]_vars

(* -------------------- properties of the Segmenter --------------------- *)

AllSpace(t) == \A k \in 1..Len(t) : t[k] \in WhiteSpace

\* text is the chunks in their order, with nothing but white space before,
\* between and after them.
RECURSIVE Rebuilds(_, _)
Rebuilds(chunks, text) ==
    IF chunks = << >> THEN AllSpace(text)
    ELSE \E k \in 0..Len(text) :
            /\ AllSpace(SubSeq(text, 1, k))
            /\ k + Len(Head(chunks)) <= Len(text)
            /\ SubSeq(text, k + 1, k + Len(Head(chunks))) = Head(chunks)
            /\ Rebuilds(Tail(chunks),
                        SubSeq(text, k + Len(Head(chunks)) + 1, Len(text)))

\* C18: the chunks made so far followed by the rest, and at the end the chunks
\* alone, give the input back once the white space between them is put in;
\* no chunk is longer than the maximum (a hard cut is exactly at it).
C18_ChunksRebuildTheText ==
    /\ segPc = "loop" => Rebuilds(Append(batches, remaining), segText)
    /\ segPc = "done" => Rebuilds(batches, segText)
    /\ \A k \in 1..Len(batches) : Len(batches[k]) <= maxChunkSize

\* C18 witness: a text cut into three chunks, with white space dropped
\* between them and a chunk as long as the maximum.
C18_Witness ==
    /\ segPc = "done"
    /\ Len(batches) = 3
    /\ Len(batches[1]) + Len(batches[2]) + Len(batches[3]) < Len(segText)
    /\ Len(batches[1]) = maxChunkSize
    /\ "\n" \notin Range(segText)

\* The indices up to the limit where a paragraph break / a newline starts.
BreaksUpTo(text, limit) ==
    {k \in 0..limit : k + 2 <= Len(text) /\ text[k + 1] = "\n" /\ text[k + 2] = "\n"}

NewlinesUpTo(text, limit) ==
    {k \in 0..limit : k + 1 <= Len(text) /\ text[k + 1] = "\n"}

Greatest(S) == CHOOSE k \in S : \A m \in S : m <= k

\* The paragraphs of a text: its pieces between "\n\n".
RECURSIVE Paragraphs(_)
Paragraphs(text) ==
    LET starts == {k \in 1..(Len(text) - 1) : text[k] = "\n" /\ text[k + 1] = "\n"}
    IN  IF starts = {} THEN <<text>>
        ELSE LET k == CHOOSE x \in starts : \A y \in starts : x <= y
             IN  <<SubSeq(text, 1, k - 1)>>
                     \o Paragraphs(SubSeq(text, k + 2, Len(text)))

\* A text of paragraphs separated by one blank line, each within the limit,
\* not empty, and without white space at its ends.
ParagraphForm(text, limit) ==
    \A k \in 1..Len(Paragraphs(text)) :
        LET para == Paragraphs(text)[k]
        IN  /\ Len(para) >= 1
            /\ Len(para) <= limit
            /\ para[1] \notin WhiteSpace
            /\ para[Len(para)] \notin WhiteSpace

RECURSIVE ParagraphsOfAll(_)
ParagraphsOfAll(chunks) ==
    IF chunks = << >> THEN << >>
    ELSE Paragraphs(Head(chunks)) \o ParagraphsOfAll(Tail(chunks))

\* C19: an iteration on a rest longer than the maximum cuts at the last
\* paragraph break starting at or before the limit, else at the last newline
\* at or before the limit, else at the limit; and a text of paragraphs that
\* each fit is cut into chunks of whole paragraphs, in their order.
C19_CutsAtParagraphBreaks ==
    /\ [][ (segPc = "loop" /\ Len(remaining) > maxChunkSize) =>
              /\ Len(batches') = Len(batches) + 1
              /\ LET cut == IF BreaksUpTo(remaining, maxChunkSize) # {}
                            THEN Greatest(BreaksUpTo(remaining, maxChunkSize))
                            ELSE IF NewlinesUpTo(remaining, maxChunkSize) # {}
                            THEN Greatest(NewlinesUpTo(remaining, maxChunkSize))
                            ELSE maxChunkSize
                 IN  batches'[Len(batches')] = SubSeq(remaining, 1, cut)
          ]_vars
    /\ []((segPc = "done" /\ ParagraphForm(segText, maxChunkSize)) =>
              /\ ParagraphsOfAll(batches) = Paragraphs(segText)
              /\ \A k \in 1..Len(batches) : ParagraphForm(batches[k], maxChunkSize))

\* C19 witness: three paragraphs cut into two chunks, one of them holding
\* two paragraphs.
C19_Witness ==
    /\ segPc = "done"
    /\ ParagraphForm(segText, maxChunkSize)
    /\ Len(Paragraphs(segText)) = 3
    /\ Len(batches) = 2

\* C20: every iteration that cuts makes the rest strictly shorter, and the
\* call returns.
C20_SegmenterTerminates ==
    /\ [][ (segPc = "loop" /\ segPc' = "loop") => Len(remaining') < Len(remaining) ]_vars
    /\ <>(segPc = "done")

\* C20 witness: the call returned on a single line longer than the limit
\* that starts with a newline.
C20_Witness ==
    /\ segPc = "done"
    /\ Len(segText) = MaxTextLen
    /\ maxChunkSize = 1
    /\ segText[1] = "\n"
    /\ \A k \in 2..Len(segText) : segText[k] = "a"
    /\ Len(batches) = MaxTextLen

(* --------------------- properties of the records ---------------------- *)

\* The metadata fields of a record.
MetadataFields == {"title", "driver", "driverGroup", "effectDirection"}

\* C25: every record of the corpus has a non-empty value in every metadata
\* field: no field is undefined and none is the empty string.
C25_NoEmptyMetadata ==
    \A k \in 1..Len(papers) : \A f \in MetadataFields :
        papers[k][f] # Undefined /\ papers[k][f] # <<"">>

\* C27: a start of the extraction with no text or with no key submits no
\* batch, leaves the corpus, the batch counter and the pending proposals as
\* they were, and reports an error.
C27_RefusedStartChangesNothing ==
    [][lastStep' = "refused" =>
          /\ submits' = submits
          /\ pc' = "idle"
          /\ ~isProcessing'
          /\ papers' = papers
          /\ batchCount' = batchCount
          /\ consolidationSuggestions' = consolidationSuggestions
          /\ error' \in {"NoInput", "NoKey"}]_vars

\* A start was refused on a corpus with pending proposals.
C27_Witness ==
    /\ lastStep = "refused"
    /\ error = "NoInput"
    /\ Len(papers) > 0
    /\ consolidationSuggestions # << >>
    /\ consolidationSuggestions[1].id # OkId

(* ------------------- properties of the taxonomy hint ------------------ *)

\* C30: the taxonomy submitted with a batch holds every (category, theme)
\* pair of the records that are in the corpus when the batch is submitted,
\* those merged by a manual-fix retry included.
C30_HintCoversCorpus ==
    pc = "analyze" => taxonomy(papers) \subseteq taxonomyHint

(* -------------------- properties of accepting a proposal -------------- *)

\* The proposal has the one shape named and no other.
OnlyMerge(s) ==
    /\ s.suggested_merge # << >>
    /\ s.suggested_move = << >>
    /\ s.suggested_rename = << >>
    /\ s.suggested_category_merge = << >>

OnlyMove(s) ==
    /\ s.suggested_move # << >>
    /\ s.suggested_merge = << >>
    /\ s.suggested_rename = << >>
    /\ s.suggested_category_merge = << >>

\* ps without change but for the theme of the records at the places in hit.
ThemeRewritten(before, after, hit, name) ==
    /\ Len(after) = Len(before)
    /\ \A k \in 1..Len(before) :
         after[k] = IF k \in hit THEN [before[k] EXCEPT !.theme = name]
                    ELSE before[k]

\* ps without change but for the category of the records at the places in hit.
CategoryRewritten(before, after, hit, name) ==
    /\ Len(after) = Len(before)
    /\ \A k \in 1..Len(before) :
         after[k] = IF k \in hit THEN [before[k] EXCEPT !.category = name]
                    ELSE before[k]

\* The other proposals stay as they are, the accepted one is gone.
OnlyRemoved(before, after, id) ==
    LET IsOther(s) == s.id # id
    IN  after = SelectSeq(before, IsOther)

\* C29: accepting a theme merge gives the new theme to exactly the records of
\* the proposal's category whose theme is one of the combined themes;
\* accepting a move gives the target category to exactly the records of the
\* current category and the theme; the other records, every identifier and
\* the other pending proposals stay as they are and the accepted proposal
\* leaves the list.
C29_AcceptRewritesExactlyTheMatches ==
    [][lastStep' = "accept" =>
          LET s == lastSuggestion'
          IN  /\ OnlyMerge(s) =>
                    /\ ThemeRewritten(papers, papers',
                          {k \in 1..Len(papers) :
                              /\ papers[k].category = s.main_category
                              /\ papers[k].theme \in
                                    Range(s.suggested_merge[1].themes_to_combine)},
                          s.suggested_merge[1].new_theme_name)
                    /\ IdSeq(papers') = IdSeq(papers)
                    /\ OnlyRemoved(consolidationSuggestions,
                                   consolidationSuggestions', s.id)
              /\ OnlyMove(s) =>
                    /\ CategoryRewritten(papers, papers',
                          {k \in 1..Len(papers) :
                              /\ papers[k].category = s.suggested_move[1].current_category
                              /\ papers[k].theme = s.suggested_move[1].theme},
                          s.suggested_move[1].target_category)
                    /\ IdSeq(papers') = IdSeq(papers)
                    /\ OnlyRemoved(consolidationSuggestions,
                                   consolidationSuggestions', s.id)]_vars

\* A move of theme t1 from A to B was accepted on the corpus of three
\* records: the record of (A, t1) is in B, the record of (A, t2) stayed, and
\* another proposal is still pending.
C29_Witness ==
    /\ lastStep = "accept"
    /\ OnlyMove(lastSuggestion)
    /\ lastSuggestion.suggested_move[1].current_category = "A"
    /\ Len(papers) = 3
    /\ papers[1].category = "B"
    /\ papers[2].category = "A"
    /\ Len(consolidationSuggestions) = 1

(* ------------------ properties of the pending proposals --------------- *)

\* The theme merge of s combines one theme into itself.
IsSelfMerge(s) ==
    /\ s.suggested_merge # << >>
    /\ Len(s.suggested_merge[1].themes_to_combine) = 1
    /\ s.suggested_merge[1].themes_to_combine[1] = s.suggested_merge[1].new_theme_name

\* The move of s leads to the category it starts from.
IsSameCategoryMove(s) ==
    /\ s.suggested_move # << >>
    /\ s.suggested_move[1].current_category = s.suggested_move[1].target_category

\* C26: the pending list a consolidation run leaves holds no theme merge
\* whose only combined theme is its own new name and no move whose current
\* category is its target category.
C26_NoSelfMergeNoSameCategoryMove ==
    lastStep = "consolidated" =>
        \A k \in 1..Len(consolidationSuggestions) :
            /\ ~IsSelfMerge(consolidationSuggestions[k])
            /\ ~IsSameCategoryMove(consolidationSuggestions[k])

\* The service suggested merging t1 into t1 together with a rename: the
\* proposal is pending with the rename alone.
C26_Witness ==
    /\ lastStep = "consolidated"
    /\ Len(lastReply) = 1
    /\ IsSelfMerge(lastReply[1])
    /\ Len(consolidationSuggestions) = 1
    /\ consolidationSuggestions[1].id # OkId
    /\ consolidationSuggestions[1].suggested_merge = << >>
    /\ consolidationSuggestions[1].suggested_rename # << >>

\* The number of shapes a proposal carries.
Shapes(s) ==
    Cardinality({f \in {"suggested_merge", "suggested_rename", "suggested_move",
                        "suggested_category_merge"} : s[f] # << >>})

\* C28: every pending proposal has exactly one of the four shapes.
C28_OneShapePerProposal ==
    \A k \in 1..Len(consolidationSuggestions) :
        Shapes(consolidationSuggestions[k]) = 1

(* ---------------- properties of verifying and reversing --------------- *)

\* The steps of handleVerifyMove and handleReverseSuggestion.
VerifySteps == {"verify", "verifySkipped", "verified", "verifiedInvalid",
                "verifyThrew", "reverse", "reversed", "reverseNoReason",
                "reverseThrew"}

\* C23: verifying a move and reversing a proposal leave the corpus, the locks
\* and the Rejection Log as they are, whatever the service answers and also
\* when the request fails; of the pending list they change at most the
\* proposal they were called for.
C23_VerifyReverseTouchOnlyTheList ==
    [][lastStep' \in VerifySteps =>
          /\ papers' = papers
          /\ lockedItems' = lockedItems
          /\ rejectedSuggestions' = rejectedSuggestions
          /\ batchCount' = batchCount
          /\ Len(consolidationSuggestions') <= Len(consolidationSuggestions)
          /\ \A k \in 1..Len(consolidationSuggestions') :
                \/ consolidationSuggestions'[k] \in Range(consolidationSuggestions)
                \/ /\ consolidationSuggestions'[k].id = verifyingSuggestionId
                   /\ consRuns = clConsRuns
          /\ \A k \in 1..Len(consolidationSuggestions) :
                \/ consolidationSuggestions[k] \in Range(consolidationSuggestions')
                \/ /\ consolidationSuggestions[k].id = verifyingSuggestionId
                   /\ consRuns = clConsRuns]_vars

\* A move was reversed into a category merge while a rejection is logged.
C23_Witness ==
    /\ lastStep = "reversed"
    /\ Len(papers) > 0
    /\ rejectedSuggestions # << >>
    /\ \E k \in 1..Len(consolidationSuggestions) :
          /\ consolidationSuggestions[k].main_category = "A"
          /\ consolidationSuggestions[k].suggested_move = << >>
          /\ consolidationSuggestions[k].suggested_category_merge = CategoryMerge("B", "A")

(* ------------- properties of the enhancement requests ----------------- *)

\* The steps in which a wrapper repeats its call, and those in which it
\* returns its "no changes" value.
RetrySteps == {"auditRetry", "consRetry", "optRetry"}

GaveUpSteps == {"auditGaveUp", "consGaveUp", "optGaveUp"}

\* C22: a failing consolidation, normalization or audit request is repeated
\* at most maxRetries (3) times and then answers "no changes": the corpus is
\* as it was, no error stops the session, an extraction run in flight goes
\* on, and the run whose audit failed ends as a completed run.
C22_FailedEnhancementChangesNothing ==
    [][/\ lastStep' \in RetrySteps =>
             /\ papers' = papers
             /\ IF lastStep' = "auditRetry"
                   THEN retries' = retries + 1 /\ retries' <= maxRetriesEnh
                   ELSE enhRetries' = enhRetries + 1
                        /\ enhRetries' <= maxRetriesEnh
       /\ lastStep' \in GaveUpSteps =>
             /\ papers' = papers
             /\ batchCount' = batchCount
             /\ ~quotaErrorOpen'
             /\ ~manualFixState'.isOpen
             /\ error' \notin {"StoppedError", "QuotaStop", "Stopped"}
       /\ lastStep' = "auditGaveUp" =>
             /\ error' = "Done"
             /\ pc' = "idle"
             /\ ~isProcessing'
       /\ lastStep' = "consGaveUp" =>
             /\ consolidationSuggestions' = Placeholder
             /\ ~isConsolidating'
             /\ <<pc, isProcessing, error>>' = <<pc, isProcessing, error>>
       /\ lastStep' = "optGaveUp" =>
             /\ ~isConsolidating'
             /\ <<pc, isProcessing>>' = <<pc, isProcessing>>]_vars

\* The consolidation request failed four times during an extraction run: the
\* placeholder is shown, the run goes on with its records.
C22_Witness ==
    /\ lastStep = "consGaveUp"
    /\ enhRetries = maxRetriesEnh
    /\ consolidationSuggestions = Placeholder
    /\ Len(papers) > 0
    /\ isProcessing
    /\ pc = "analyze"

(* -------------- properties of normalization and of the file ----------- *)

\* The identifiers the moves of an answer name.
MovedIds(moves) == {moves[k].paper_id : k \in 1..Len(moves)}

\* C24: normalization leaves the number of records and their identifiers as
\* they are, and every record whose identifier no returned move names keeps
\* all its fields.
C24_NormalizationRewritesOnlyMapped ==
    [][lastStep' = "optimized" =>
          /\ Len(papers') = Len(papers)
          /\ IdSeq(papers') = IdSeq(papers)
          /\ \A k \in 1..Len(papers) :
                papers[k].id \notin MovedIds(lastReply') => papers'[k] = papers[k]]_vars

\* The answer named the first record and a record that is not there: the
\* first record has the new terms, the second its old ones.
C24_Witness ==
    /\ lastStep = "optimized"
    /\ Len(lastReply) = 2
    /\ Cardinality(MovedIds(lastReply)) = 2
    /\ Len(papers) >= 2
    /\ papers[1].id \in MovedIds(lastReply)
    /\ papers[1].driver = <<"Precipitation">>
    /\ papers[2].id \notin MovedIds(lastReply)
    /\ papers[2].driver = <<"Rain">>

\* C21: importing the document that an export wrote gives back the corpus
\* the export was made of, record by record with the same identifiers,
\* field values, categories and themes, and the topic and the normalization
\* flag of that moment.
C21_ExportImportRoundTrip ==
    [][lastStep' = "importSaved" =>
          /\ exportedState # << >>
          /\ papers' = exportedState[1].papers
          /\ reviewTopic' = exportedState[1].reviewTopic
          /\ isTermsNormalized' = exportedState[1].isTermsNormalized]_vars

\* A corpus with a record without a title and one with an empty title was
\* exported with its topic before it was normalized, and is loaded again.
C21_Witness ==
    /\ lastStep = "importSaved"
    /\ Len(papers) = 3
    /\ papers[2].title = <<"">>
    /\ papers[3].title = Undefined
    /\ reviewTopic = "eco"
    /\ ~isTermsNormalized
    /\ lastReply # << >>

(* ------------- properties of the outcomes of verify and reverse ------- *)

\* The pending proposal the request in flight was made for, if it is still
\* pending: its position in the list, 0 if it is not there.
RECURSIVE PositionOfTheOne(_, _)
PositionOfTheOne(list, k) ==
    IF k > Len(list) THEN 0
    ELSE IF IsTheOne(list[k]) THEN k
    ELSE PositionOfTheOne(list, k + 1)

\* The list without its n-th element.
Without(list, n) == [k \in 1..(Len(list) - 1) |-> IF k < n THEN list[k] ELSE list[k + 1]]

\* C31: a move judged invalid leaves the pending list, one judged valid
\* stays where it is with its verified flag set and nothing else changed, a
\* failed request changes nothing; every other proposal stays as it is, at
\* its place.
C31_VerifyOutcomes ==
    [][LET list == consolidationSuggestions
           n == PositionOfTheOne(list, 1)
       IN  /\ lastStep' = "verifiedInvalid" =>
                 consolidationSuggestions' =
                     IF n = 0 THEN list ELSE Without(list, n)
           /\ lastStep' = "verified" =>
                 /\ Len(consolidationSuggestions') = Len(list)
                 /\ \A k \in 1..Len(list) :
                       IF k = n
                       THEN /\ consolidationSuggestions'[k].isVerified
                            /\ consolidationSuggestions'[k] =
                                   [list[k] EXCEPT !.isVerified = TRUE]
                       ELSE consolidationSuggestions'[k] = list[k]
           /\ lastStep' = "verifyThrew" =>
                 consolidationSuggestions' = list]_vars

\* A move was judged invalid and removed; the other proposal of the list,
\* a rename, is still pending.
C31_Witness ==
    /\ lastStep = "verifiedInvalid"
    /\ Len(consolidationSuggestions) = 1
    /\ consolidationSuggestions[1].suggested_rename # << >>
    /\ consolidationSuggestions[1].id = 1

\* C32: a reversal that returns a reason replaces a pending category merge
\* (S -> T) at its place, under its id, by the category merge (T -> S), and a
\* pending move of a theme from C to T by the category merge (T -> C) without
\* a move; a reversal that returns no reason or fails leaves the list as it
\* is.
C32_ReverseOutcomes ==
    [][LET list == consolidationSuggestions
           n == PositionOfTheOne(list, 1)
       IN  /\ lastStep' = "reversed" /\ n # 0 =>
                 /\ Len(consolidationSuggestions') = Len(list)
                 /\ consolidationSuggestions'[n].id = list[n].id
                 /\ list[n].suggested_category_merge # << >> =>
                       consolidationSuggestions'[n].suggested_category_merge =
                           CategoryMerge(
                               list[n].suggested_category_merge[1].target_category,
                               list[n].suggested_category_merge[1].source_category)
                 /\ list[n].suggested_move # << >> =>
                       /\ consolidationSuggestions'[n].suggested_move = << >>
                       /\ consolidationSuggestions'[n].suggested_category_merge =
                              CategoryMerge(
                                  list[n].suggested_move[1].target_category,
                                  list[n].suggested_move[1].current_category)
           /\ lastStep' \in {"reverseNoReason", "reverseThrew"} =>
                 consolidationSuggestions' = list]_vars

\* C39: no pending category merge has as source or target a category that
\* was locked when the list was generated, a category merge made of a move
\* by a reversal included.
C39_NoCategoryMergeOfLocked ==
    \A k \in 1..Len(consolidationSuggestions) :
        LET s == consolidationSuggestions[k]
        IN  s.suggested_category_merge # << >> =>
                /\ CatKey(s.suggested_category_merge[1].source_category)
                       \notin clLockedItems
                /\ CatKey(s.suggested_category_merge[1].target_category)
                       \notin clLockedItems

(* ------- properties of accepting while a request is in flight --------- *)

\* The category names that accepting s eliminates: the old name of a rename,
\* the source of a category merge.
Eliminated(s) ==
    (IF s.suggested_rename # << >>
        THEN {s.suggested_rename[1].current_name} ELSE {})
    \cup (IF s.suggested_category_merge # << >>
            THEN {s.suggested_category_merge[1].source_category} ELSE {})

ReturnSteps == {"verified", "verifiedInvalid", "verifyThrew", "reversed",
                "reverseNoReason", "reverseThrew"}

\* C37: when a rename or a category merge was accepted while the reversal of
\* another pending proposal was in flight, the reversed proposal names none
\* of the categories the accepted edit eliminated; and a verification or
\* reversal that completes brings no proposal back that has left the list.
C37_AcceptWhileInFlight ==
    [][LET list == consolidationSuggestions
           n == PositionOfTheOne(consolidationSuggestions', 1)
       IN  /\ (lastStep' = "reversed" /\ lastStep = "accept" /\ n # 0) =>
                 \A f \in 1..5 :
                     CategoryRefs(consolidationSuggestions'[n])[f]
                         \notin Eliminated(lastSuggestion)
           /\ lastStep' \in ReturnSteps =>
                 \A k \in 1..Len(consolidationSuggestions') :
                     \E j \in 1..Len(list) :
                         list[j].id = consolidationSuggestions'[k].id]_vars

(* ------------------ more properties of the Segmenter ------------------ *)

\* C40: for a text that is not blank, every chunk of createBatches holds at
\* least one character.
C40_NoEmptyChunk ==
    ~AllSpace(segText) => \A k \in 1..Len(batches) : Len(batches[k]) > 0

(* --------------------- properties of manual renaming ------------------ *)

\* C38: a rename by hand moves the lock of the renamed category or theme
\* from its old name to its new one, and after the rename of a category
\* every theme that was locked under the old category name is locked under
\* the new one.
C38_RenameKeepsLocks ==
    [][lastStep' = "edit" =>
          LET trimmed == trim(editingItem.value)
              oldKey == editingItem.id
              newKey == IF editingItem.type = "cat" THEN CatKey(trimmed[1])
                        ELSE ThemeKey(editingItem.id.cat, trimmed)
          IN  /\ oldKey \in lockedItems =>
                    newKey \in lockedItems' /\ oldKey \notin lockedItems'
              /\ editingItem.type = "cat" =>
                    \A key \in lockedItems :
                        (key.type = "theme" /\ key.cat = oldKey.cat) =>
                            ThemeKey(trimmed[1], key.theme) \in lockedItems'
      ]_vars

(* ------------------ more properties of the pipeline ------------------- *)

\* C35: over the life of an input no batch is merged into the corpus more
\* than once, also when extraction is started again after a run that was
\* stopped, failed, or was left at the manual-fix window.
C35_BatchMergedAtMostOncePerInput ==
    \A k \in 0..(NumBatches - 1) : mergedOfInput[k] <= 1

\* The origin batch number of the record with identifier id: the loop names
\* a record after the counter it stamps it with (lines 1784, 1798), a manual
\* fix after the counter before it (lines 1888, 1902).
BatchIdOf(id) == IF id.fixed THEN id.b + 1 ELSE id.b

MergeSteps == {"merge", "fixMerge"}

\* C33: every merge, that of a manual fix and those of the run resumed after
\* it included, increases the batch counter, and stamps its records with a
\* batch number that no record merged before carries.
C33_BatchCounterStrictlyIncreases ==
    [][lastStep' \in MergeSteps =>
          /\ batchCount' > batchCount
          /\ \A k \in 1..Len(papers') :
                papers'[k].id \notin everMerged =>
                    \A id \in everMerged : BatchIdOf(id) # papers'[k].batchId
      ]_vars

\* The states in which no call of the run is awaited: the run has not
\* started, has ended, or is paused at the manual-fix window.
AtRest == pc = "idle"

\* C34: a run never goes back to an earlier batch, no call is retried more
\* than maxRetries times, and when every call returns the run comes to rest:
\* it has ended (all batches merged, stopped, or failed) or waits for a
\* manual fix.
C34_RunComesToRest ==
    /\ [][(pc # "idle" /\ pc' # "idle") =>
             /\ i' >= i
             /\ retries' <= maxRetries]_vars
    /\ [](~AtRest => <>(AtRest /\ ~isProcessing))

\* A run of all batches came to rest after its audit, every batch merged.
C34_Witness ==
    /\ AtRest
    /\ ~isProcessing
    /\ error = "Done"
    /\ runs >= 1
    /\ \A k \in 0..(NumBatches - 1) : merges[k] >= 1

\* C36: a batch merge keeps the corpus as it is when the merge happens and
\* appends to it: a record renamed by hand while the run was under way is in
\* the corpus after the merge as it was before it.
C36_MergeKeepsCorpus ==
    [][lastStep' = "merge" =>
          /\ Len(papers') >= Len(papers)
          /\ \A k \in 1..Len(papers) : papers'[k] = papers[k]
      ]_vars

====
